---------------------------- MODULE Spec2Model ----------------------------
(***************************************************************************)
(* Resume builder backend: the section chunker (chunk_resume.py), the      *)
(* multi-agent orchestrator (resume_agents.py) and the entry point         *)
(* stream_resume_processing (ai_parser.py).                                *)
(*                                                                         *)
(* Text is a sequence of one-character strings.  Offsets are Python's:     *)
(* 0-based, slices half-open.  Operators that walk a whole Document are    *)
(* written over index sets so that a Document of more than 1000            *)
(* characters can be evaluated.                                            *)
(***************************************************************************)
EXTENDS Integers, Sequences, FiniteSets, TLC

---------------------------------------------------------------------------
(* Python string primitives *)

UpperLetters ==
  <<"A","B","C","D","E","F","G","H","I","J","K","L","M",
    "N","O","P","Q","R","S","T","U","V","W","X","Y","Z">>

LowerLetters ==
  <<"a","b","c","d","e","f","g","h","i","j","k","l","m",
    "n","o","p","q","r","s","t","u","v","w","x","y","z">>

Digits == {"0","1","2","3","4","5","6","7","8","9"}

Range(f) == {f[i] : i \in DOMAIN f}

IsUpper(c) == c \in Range(UpperLetters)

IsAlpha(c) == c \in Range(UpperLetters) \cup Range(LowerLetters)

IsAlnum(c) == IsAlpha(c) \/ c \in Digits

\* str.isspace for the characters of the model's alphabet
IsSpace(c) == c \in {" ", "\n", "\t", "\r"}

SetMin(S) == CHOOSE x \in S : \A y \in S : x <= y

SetMax(S) == CHOOSE x \in S : \A y \in S : x >= y

Min2(a, b) == IF a <= b THEN a ELSE b

Max2(a, b) == IF a >= b THEN a ELSE b

\* one character of str.lower()
LowerChar(c) ==
  IF IsUpper(c) THEN LowerLetters[CHOOSE i \in 1..26 : UpperLetters[i] = c] ELSE c

\* str.lower()
Lower(s) == [i \in 1..Len(s) |-> LowerChar(s[i])]

\* s[a:b] for 0 <= a
Slice(s, a, b) == SubSeq(s, a + 1, Min2(b, Len(s)))

\* s[a:]
SliceFrom(s, a) == SubSeq(s, a + 1, Len(s))

\* s.startswith(p)
StartsWith(s, p) == Len(p) <= Len(s) /\ SubSeq(s, 1, Len(p)) = p

\* s.endswith(p)
EndsWith(s, p) == Len(p) <= Len(s) /\ SubSeq(s, Len(s) - Len(p) + 1, Len(s)) = p

\* h.find(n, from): the lowest 0-based index >= from where n occurs, or -1
Find(h, n, from) ==
  LET hits == {i \in from..(Len(h) - Len(n)) : SubSeq(h, i + 1, i + Len(n)) = n}
  IN  IF hits = {} THEN -1 ELSE SetMin(hits)

\* h.rfind(n): the highest 0-based index where n occurs, or -1
RFind(h, n) ==
  LET hits == {i \in 0..(Len(h) - Len(n)) : SubSeq(h, i + 1, i + Len(n)) = n}
  IN  IF hits = {} THEN -1 ELSE SetMax(hits)

\* n in h
Contains(h, n) == Find(h, n, 0) # -1

\* the characters of s at the indices of keep, in order
KeepIndices(s, keep) ==
  LET rank == [i \in keep |-> Cardinality({j \in keep : j <= i})]
  IN  [n \in 1..Cardinality(keep) |-> s[CHOOSE i \in keep : rank[i] = n]]

\* s.lstrip()
LStrip(s) ==
  LET solid == {i \in 1..Len(s) : ~IsSpace(s[i])}
  IN  IF solid = {} THEN <<>> ELSE SubSeq(s, SetMin(solid), Len(s))

\* s.strip()
Strip(s) ==
  LET solid == {i \in 1..Len(s) : ~IsSpace(s[i])}
  IN  IF solid = {} THEN <<>> ELSE SubSeq(s, SetMin(solid), SetMax(solid))

\* s.replace(c, ''), c one character
RemoveChar(s, c) == KeepIndices(s, {i \in 1..Len(s) : s[i] # c})

\* s.split(sep), sep one character: the pieces between the separators
SplitOn(s, sep) ==
  LET cuts  == {i \in 1..Len(s) : s[i] = sep}
      edges == {0} \cup cuts \cup {Len(s) + 1}
      rank  == [e \in edges |-> Cardinality({f \in edges : f <= e})]
      edge(n) == CHOOSE e \in edges : rank[e] = n
  IN  [n \in 1..(Cardinality(cuts) + 1) |-> SubSeq(s, edge(n) + 1, edge(n + 1) - 1)]

\* s.split(): the maximal runs of non-whitespace characters
SplitWords(s) ==
  LET starts == {i \in 1..Len(s) : ~IsSpace(s[i]) /\ (i = 1 \/ IsSpace(s[i - 1]))}
      rank   == [b \in starts |-> Cardinality({c \in starts : c <= b})]
      start(n) == CHOOSE b \in starts : rank[b] = n
      stop(b)  == SetMin({e \in b..Len(s) : e = Len(s) \/ IsSpace(s[e + 1])})
  IN  [n \in 1..Cardinality(starts) |-> SubSeq(s, start(n), stop(start(n)))]

\* a + b + ... for a sequence of strings
RECURSIVE Concat(_)
Concat(parts) == IF parts = <<>> THEN <<>> ELSE Head(parts) \o Concat(Tail(parts))

\* sep.join(parts)
RECURSIVE Join(_, _)
Join(sep, parts) ==
  IF parts = <<>> THEN <<>>
  ELSE IF Len(parts) = 1 THEN parts[1]
  ELSE parts[1] \o sep \o Join(sep, Tail(parts))

---------------------------------------------------------------------------
(* chunk_resume.py: text normalizer *)

\* the class [-*\u2022\u2023\u25E6\u2043\u2219\u00B7] of BULLET_PREFIX_PATTERN;
\* a character outside ASCII is written as its code point
BulletChars == {"-", "*", "u2022", "u2023", "u25E6", "u2043", "u2219", "u00B7"}

\* one application of BULLET_PREFIX_PATTERN.sub('', text, count=1):
\* ^\s* (?:--+|[-*...]+) (?:\s+|(?=[A-Za-z0-9]))
strip_bullet_once(text) ==
  LET n      == Len(text)
      solid  == {i \in 1..n : ~IsSpace(text[i])}
      first  == IF solid = {} THEN n + 1 ELSE SetMin(solid)
      plain  == {i \in first..n : text[i] \notin BulletChars}
      after  == IF plain = {} THEN n + 1 ELSE SetMin(plain)
      rest   == {i \in after..n : ~IsSpace(text[i])}
  IN  IF after = first \/ after > n THEN text
      ELSE IF IsSpace(text[after])
           THEN (IF rest = {} THEN <<>> ELSE SubSeq(text, SetMin(rest), n))
      ELSE IF IsAlnum(text[after]) THEN SubSeq(text, after, n)
      ELSE text

RECURSIVE strip_bullet_loop(_)
strip_bullet_loop(stripped) ==
  LET new_text == strip_bullet_once(stripped)
  IN  IF new_text = stripped THEN stripped ELSE strip_bullet_loop(new_text)

\* a variant of strip_bullet_prefix that removes one prefix only
strip_bullet_single_pass(text) == LStrip(strip_bullet_once(text))

strip_bullet_prefix(text) == LStrip(strip_bullet_loop(text))

\* the indices of s that re.sub(r'</?[^>]+(>|$)', '', s) removes: a match
\* opens at a "<" followed by a character other than ">" and runs through
\* the next ">" or to the end of the text
MarkupSpan(s) ==
  LET closes == {k \in 1..Len(s) : s[k] = ">"}
      opens  == {j \in 1..Len(s) : s[j] = "<" /\ j < Len(s) /\ s[j + 1] # ">"}
      lastClose(i) == SetMax({0} \cup {k \in closes : k < i})
  IN  {i \in 1..Len(s) : \E j \in opens : lastClose(i) < j /\ j <= i}

\* re.sub(r'</?[^>]+(>|$)', '', s)
StripMarkup(s) == KeepIndices(s, (1..Len(s)) \ MarkupSpan(s))

\* the indices the walker of find_original_position skips: from every "<"
\* through the next ">" or to the end of the text
WalkerSpan(s) ==
  LET closes == {k \in 1..Len(s) : s[k] = ">"}
      opens  == {j \in 1..Len(s) : s[j] = "<"}
      lastClose(i) == SetMax({0} \cup {k \in closes : k < i})
  IN  {i \in 1..Len(s) : \E j \in opens : lastClose(i) < j /\ j <= i}

\* the walk stops right after the clean_position-th counted character, or
\* at the end of the text
find_original_position(raw_text, clean_position) ==
  LET counted == (1..Len(raw_text)) \ WalkerSpan(raw_text)
      upto(i) == Cardinality({j \in counted : j <= i})
  IN  IF clean_position <= 0 THEN 0
      ELSE IF Cardinality(counted) < clean_position THEN Len(raw_text)
      ELSE CHOOSE i \in counted : upto(i) = clean_position

---------------------------------------------------------------------------
(* chunk_resume.py: section boundary detector *)

section_keywords ==
  <<
    [section_key |-> "summary", keywords |-> <<
        <<"s","u","m","m","a","r","y">>,
        <<"e","x","p","e","r","i","e","n","c","e"," ","s","u","m","m","a","r","y">>,
        <<"p","r","o","f","e","s","s","i","o","n","a","l"," ","s","u","m","m","a","r","y">>,
        <<"p","r","o","f","e","s","s","i","o","n","a","l"," ","b","a","c","k","g","r","o","u","n","d">>,
        <<"p","r","o","f","i","l","e">>,
        <<"p","r","o","f","e","s","s","i","o","n","a","l"," ","p","r","o","f","i","l","e">>,
        <<"c","a","r","e","e","r"," ","s","u","m","m","a","r","y">>,
        <<"c","a","r","e","e","r"," ","p","r","o","f","i","l","e">>,
        <<"e","x","e","c","u","t","i","v","e"," ","s","u","m","m","a","r","y">>,
        <<"t","e","c","h","n","i","c","a","l"," ","s","u","m","m","a","r","y">>,
        <<"o","v","e","r","v","i","e","w">>,
        <<"p","r","o","f","i","l","e"," ","s","u","m","m","a","r","y">>>>],
    [section_key |-> "experience", keywords |-> <<
        <<"e","x","p","e","r","i","e","n","c","e">>,
        <<"w","o","r","k"," ","e","x","p","e","r","i","e","n","c","e">>,
        <<"e","m","p","l","o","y","m","e","n","t">>,
        <<"p","r","o","f","e","s","s","i","o","n","a","l"," ","e","x","p","e","r","i","e","n","c","e">>,
        <<"w","o","r","k"," ","h","i","s","t","o","r","y">>,
        <<"c","a","r","e","e","r"," ","h","i","s","t","o","r","y">>,
        <<"e","m","p","l","o","y","m","e","n","t"," ","h","i","s","t","o","r","y">>>>],
    [section_key |-> "education", keywords |-> <<
        <<"e","d","u","c","a","t","i","o","n">>,
        <<"e","d","u","c","a","t","i","o","n","a","l"," ","b","a","c","k","g","r","o","u","n","d">>,
        <<"a","c","a","d","e","m","i","c"," ","b","a","c","k","g","r","o","u","n","d">>,
        <<"a","c","a","d","e","m","i","c"," ","h","i","s","t","o","r","y">>,
        <<"a","c","a","d","e","m","i","c"," ","q","u","a","l","i","f","i","c","a","t","i","o","n">>,
        <<"a","c","a","d","e","m","i","c"," ","q","u","a","l","i","f","i","c","a","t","i","o","n","s">>>>],
    [section_key |-> "skills", keywords |-> <<
        <<"s","k","i","l","l","s">>,
        <<"t","e","c","h","n","i","c","a","l"," ","s","k","i","l","l","s">>,
        <<"c","o","r","e"," ","c","o","m","p","e","t","e","n","c","i","e","s">>,
        <<"k","e","y"," ","s","k","i","l","l","s">>,
        <<"a","r","e","a","s"," ","o","f"," ","e","x","p","e","r","t","i","s","e">>,
        <<"s","k","i","l","l","s"," ","s","u","m","m","a","r","y">>>>],
    [section_key |-> "certifications", keywords |-> <<
        <<"c","e","r","t","i","f","i","c","a","t","i","o","n","s">>,
        <<"c","e","r","t","i","f","i","c","a","t","i","o","n">>,
        <<"c","e","r","t","i","f","i","e","d">>>>]
  >>

SearchWindow == 500

LookaheadWindow == 200

DedupDistance == 200

HeadingMaxLen == 50

HeadingMinLen == 3

is_line_standalone(line, all_lines, line_index) ==
  LET clean_line == Strip(line)
      prev_line  == IF line_index > 0 THEN Strip(all_lines[line_index]) ELSE <<>>
      next_line  == IF line_index < Len(all_lines) - 1
                    THEN Strip(all_lines[line_index + 2]) ELSE <<>>
      has_spacing_before ==
        prev_line = <<>> \/ EndsWith(prev_line, <<".">>) \/ EndsWith(prev_line, <<":">>)
      has_spacing_after == next_line = <<>> \/ IsUpper(next_line[1])
  IN  IF clean_line = <<>> THEN FALSE
      ELSE IF Len(clean_line) > HeadingMaxLen THEN FALSE
      ELSE IF \/ EndsWith(clean_line, <<",">>)
              \/ EndsWith(clean_line, <<"a","n","d">>)
              \/ EndsWith(clean_line, <<"o","r">>) THEN FALSE
      ELSE IF /\ EndsWith(prev_line, <<",">>)
              /\ ~EndsWith(prev_line, <<".">>)
              /\ ~EndsWith(prev_line, <<":">>) THEN FALSE
      ELSE has_spacing_before \/ has_spacing_after

\* the loop "for word in words: search_text.find(word.lower(), last_pos)":
\* TRUE when every word is found after the one before it
RECURSIVE WordsInSequence(_, _, _)
WordsInSequence(search_text, words, last_pos) ==
  IF words = <<>> THEN TRUE
  ELSE LET word_pos == Find(search_text, Lower(Head(words)), last_pos)
       IN  IF word_pos = -1 THEN FALSE
           ELSE WordsInSequence(search_text, Tail(words), word_pos + Len(Head(words)))

find_line_position_in_raw_text(raw_text, clean_line, approximate_position) ==
  LET words        == SplitWords(clean_line)
      search_start == Max2(0, approximate_position - SearchWindow)
      search_end   == Min2(Len(raw_text), approximate_position + SearchWindow)
      search_text  == Lower(Slice(raw_text, search_start, search_end))
  IN  IF words = <<>> THEN approximate_position
      ELSE IF ~WordsInSequence(search_text, words, 0) THEN approximate_position
      ELSE search_start + Find(search_text, Lower(words[1]), 0)

find_original_line_length(raw_text, clean_line, start_position) ==
  LET words         == SplitWords(clean_line)
      last_word     == RemoveChar(words[Len(words)], ":")
      search_text   == Lower(Slice(raw_text, start_position, start_position + LookaheadWindow))
      last_word_pos == RFind(search_text, Lower(last_word))
  IN  IF words = <<>> THEN 0
      ELSE IF last_word_pos = -1 THEN Len(clean_line)
      ELSE last_word_pos + Len(last_word)

\* the two tests of one keyword against one line
KeywordHits(clean_line, keyword) ==
  LET line_without_colon == Strip(RemoveChar(clean_line, ":"))
      line_with_colon    == clean_line
  IN  \/ line_without_colon = keyword
      \/ line_with_colon = keyword \o <<":">>
      \/ StartsWith(line_without_colon, keyword \o <<" ">>)

\* the matches one line adds: one per section key that has a keyword hitting
\* the line (the break leaves the keyword loop, not the section loop)
RECURSIVE LineMatches(_, _, _, _, _)
LineMatches(raw_text, lines, line_index, original_position, k) ==
  IF k > Len(section_keywords) THEN <<>>
  ELSE
    LET line          == lines[line_index + 1]
        stripped_line == strip_bullet_prefix(line)
        clean_line    == Strip(Lower(stripped_line))
        entry         == section_keywords[k]
        hit           == \E n \in 1..Len(entry.keywords) :
                            KeywordHits(clean_line, entry.keywords[n])
        line_start_in_raw ==
          find_line_position_in_raw_text(raw_text, stripped_line, original_position)
        line_end_in_raw ==
          line_start_in_raw
            + find_original_line_length(raw_text, stripped_line, line_start_in_raw)
        rest == LineMatches(raw_text, lines, line_index, original_position, k + 1)
    IN  IF hit /\ is_line_standalone(line, lines, line_index)
        THEN <<[section_key |-> entry.section_key, text |-> clean_line,
                start |-> line_start_in_raw, end |-> line_end_in_raw]>> \o rest
        ELSE rest

\* the loop over the lines, carrying current_position and original_position
RECURSIVE ScanLines(_, _, _, _, _, _)
ScanLines(raw_text, lines, line_index, current_position, original_position, matches) ==
  IF line_index >= Len(lines) THEN matches
  ELSE
    LET line       == lines[line_index + 1]
        clean_line == Strip(Lower(strip_bullet_prefix(line)))
        next_pos   == current_position + Len(line) + 1
    IN  IF Len(clean_line) < HeadingMinLen
        THEN ScanLines(raw_text, lines, line_index + 1, next_pos,
                       find_original_position(raw_text, next_pos), matches)
        ELSE ScanLines(raw_text, lines, line_index + 1, next_pos, next_pos,
                       IF Len(clean_line) <= HeadingMaxLen
                       THEN matches \o LineMatches(raw_text, lines, line_index,
                                                   original_position, 1)
                       ELSE matches)

\* sorted(matches, key=lambda x: x['start']): stable
\* a variant of the sort that returns the matches last line first
LastLineFirst(matches) == [i \in 1..Len(matches) |-> matches[Len(matches) + 1 - i]]

RECURSIVE SortedByStart(_)
SortedByStart(matches) ==
  IF Len(matches) <= 1 THEN matches
  ELSE LET last   == matches[Len(matches)]
           front  == SortedByStart(SubSeq(matches, 1, Len(matches) - 1))
           before == {i \in 1..Len(front) : front[i].start <= last.start}
           cut    == IF before = {} THEN 0 ELSE SetMax(before)
       IN  SubSeq(front, 1, cut) \o <<last>> \o SubSeq(front, cut + 1, Len(front))

\* a variant of DedupFrom that also drops a match exactly DedupDistance
\* after the end of the previous one
RECURSIVE DedupFromInclusive(_, _, _)
DedupFromInclusive(matches, i, result) ==
  IF i > Len(matches) THEN result
  ELSE LET current  == matches[i]
           previous == result[Len(result)]
       IN  IF /\ current.section_key = previous.section_key
              /\ current.start - previous.end <= DedupDistance
           THEN DedupFromInclusive(matches, i + 1, result)
           ELSE DedupFromInclusive(matches, i + 1, Append(result, current))

\* the loop of remove_duplicate_sections from matches[i] on
RECURSIVE DedupFrom(_, _, _)
DedupFrom(matches, i, result) ==
  IF i > Len(matches) THEN result
  ELSE LET current  == matches[i]
           previous == result[Len(result)]
       IN  IF /\ current.section_key = previous.section_key
              /\ current.start - previous.end < DedupDistance
           THEN DedupFrom(matches, i + 1, result)
           ELSE DedupFrom(matches, i + 1, Append(result, current))

\* a variant of remove_duplicate_sections that starts from the second match
remove_duplicates_after_first(matches) ==
  IF Len(matches) <= 1 THEN matches ELSE DedupFrom(matches, 3, <<matches[2]>>)

remove_duplicate_sections(matches) ==
  IF Len(matches) <= 1 THEN matches ELSE DedupFrom(matches, 2, <<matches[1]>>)

\* sorted(matches, key=lambda x: x['start']) at the end of
\* find_sections_by_words: the matches of all lines, before deduplication
sorted_matches(raw_text) ==
  SortedByStart(ScanLines(raw_text, SplitOn(StripMarkup(raw_text), "\n"), 0, 0, 0, <<>>))

find_sections_by_words(raw_text) == remove_duplicate_sections(sorted_matches(raw_text))


---------------------------------------------------------------------------
(* chunk_resume.py: redaction *)

\* the character at 0-based position p, or "" past the end
CharAt(s, p) == IF p >= 0 /\ p < Len(s) THEN s[p + 1] ELSE ""

\* s[p:p+len(lit)] == lit
LiteralAt(s, p, lit) == p + Len(lit) <= Len(s) /\ SubSeq(s, p + 1, p + Len(lit)) = lit

EmailLocalChar(c) == IsAlnum(c) \/ c \in {".", "_", "%", "+", "-"}

EmailDomainChar(c) == IsAlnum(c) \/ c \in {".", "-"}

NonSpaceChar(c) == ~IsSpace(c)

\* the character classes the patterns repeat: \s, [^\s], [a-zA-Z],
\* [a-zA-Z0-9._%+-] and [a-zA-Z0-9.-]
InClass(class, c) ==
  CASE class = "space"        -> IsSpace(c)
    [] class = "non_space"    -> NonSpaceChar(c)
    [] class = "alpha"        -> IsAlpha(c)
    [] class = "email_local"  -> EmailLocalChar(c)
    [] class = "email_domain" -> EmailDomainChar(c)

\* the first position >= p whose character is outside the class, or len(s)
RunEnd(s, p, class) ==
  LET out == {q \in p..(Len(s) - 1) : ~InClass(class, s[q + 1])}
  IN  IF out = {} THEN Len(s) ELSE SetMin(out)

\* [a-zA-Z0-9._%+-]+@[a-zA-Z0-9.-]+\.[a-zA-Z]{2,} matched at i: the end of
\* the match, or -1
EmailEnd(s, i) ==
  LET at   == RunEnd(s, i, "email_local")
      dEnd == RunEnd(s, at + 1, "email_domain")
      dots == {p \in (at + 2)..(dEnd - 1) :
                 CharAt(s, p) = "." /\ IsAlpha(CharAt(s, p + 1)) /\ IsAlpha(CharAt(s, p + 2))}
  IN  IF at = i \/ CharAt(s, at) # "@" \/ dots = {} THEN -1
      ELSE RunEnd(s, SetMax(dots) + 1, "alpha")

DigitsAt(s, p, n) == p + n <= Len(s) /\ \A j \in 1..n : s[p + j] \in Digits

\* [-\s]? before a digit or a parenthesis: taken when it is there
SepLen(s, p) == IF CharAt(s, p) = "-" \/ IsSpace(CharAt(s, p)) THEN 1 ELSE 0

\* \d{3}[-\s]?\d{4} at t
PhoneTail(s, t) ==
  IF ~DigitsAt(s, t, 3) THEN -1
  ELSE LET u == t + 3 + SepLen(s, t + 3)
       IN  IF DigitsAt(s, u, 4) THEN u + 4 ELSE -1

\* (\(?\d{3}\)?[-\s]?) at q: the position after it, or -1
PhoneAreaEnd(s, q) ==
  LET a == IF CharAt(s, q) = "(" THEN q + 1 ELSE q
      b == IF CharAt(s, a + 3) = ")" THEN a + 4 ELSE a + 3
  IN  IF DigitsAt(s, a, 3) THEN b + SepLen(s, b) ELSE -1

\* (\(?\d{3}\)?[-\s]?)?\d{3}[-\s]?\d{4} at q: with the group, else without
PhoneLocal(s, q) ==
  LET g == PhoneAreaEnd(s, q)
      withArea == IF g = -1 THEN -1 ELSE PhoneTail(s, g)
  IN  IF withArea # -1 THEN withArea ELSE PhoneTail(s, q)

\* (\+\d{1,3}[-\s]?) at i with k digits, then the rest of the pattern
PhoneAfterCountry(s, i, k) ==
  IF CharAt(s, i) = "+" /\ DigitsAt(s, i + 1, k)
  THEN PhoneLocal(s, i + 1 + k + SepLen(s, i + 1 + k))
  ELSE -1

\* (\+\d{1,3}[-\s]?)?(\(?\d{3}\)?[-\s]?)?\d{3}[-\s]?\d{4} matched at i
PhoneEnd(s, i) ==
  IF PhoneAfterCountry(s, i, 3) # -1 THEN PhoneAfterCountry(s, i, 3)
  ELSE IF PhoneAfterCountry(s, i, 2) # -1 THEN PhoneAfterCountry(s, i, 2)
  ELSE IF PhoneAfterCountry(s, i, 1) # -1 THEN PhoneAfterCountry(s, i, 1)
  ELSE PhoneLocal(s, i)

\* prefix[^\s]+ at p
PrefixedTokenEnd(s, p, prefix) ==
  LET q == p + Len(prefix)
      e == RunEnd(s, q, "non_space")
  IN  IF LiteralAt(s, p, prefix) /\ e > q THEN e ELSE -1

\* https?://(www\.)?host[^\s]+ at i
SchemeUrlEnd(s, i, host) ==
  LET h   == <<"h","t","t","p">>
      a   == IF CharAt(s, i + 4) = "s" THEN i + 5 ELSE i + 4
      b   == a + 3
      www == PrefixedTokenEnd(s, b, <<"w","w","w",".">> \o host)
  IN  IF ~(LiteralAt(s, i, h) /\ LiteralAt(s, a, <<":","/","/">>)) THEN -1
      ELSE IF www # -1 THEN www
      ELSE PrefixedTokenEnd(s, b, host)

LinkedInHost == <<"l","i","n","k","e","d","i","n",".","c","o","m","/","i","n","/">>

GitHubHost == <<"g","i","t","h","u","b",".","c","o","m","/">>

\* characters outside ASCII are written as their code point
EnDash == "u2013"

EmDash == "u2014"

\* \s+to\s+ (IGNORECASE) matched at i
ToWordEnd(s, i) ==
  LET e == RunEnd(s, i, "space")
  IN  IF /\ e > i
         /\ LowerChar(CharAt(s, e)) = "t"
         /\ LowerChar(CharAt(s, e + 1)) = "o"
         /\ IsSpace(CharAt(s, e + 2))
      THEN RunEnd(s, e + 2, "space") ELSE -1

\* \s*[sep chars]\s* matched at i
SpacedCharEnd(s, i, chars) ==
  LET e == RunEnd(s, i, "space")
  IN  IF CharAt(s, e) \in chars THEN RunEnd(s, e + 1, "space") ELSE -1

\* [-|]\s* matched at i
DashPipeEnd(s, i) ==
  IF CharAt(s, i) \in {"-", "|"} THEN RunEnd(s, i + 1, "space") ELSE -1

\* the six patterns of sanitize_sensitive_info, in the order it applies them
RedactionPasses ==
  << [pattern |-> "email",           repl |-> <<"[","E","M","A","I","L"," ","R","E","D","A","C","T","E","D","]">>],
     [pattern |-> "phone",           repl |-> <<"[","P","H","O","N","E"," ","R","E","D","A","C","T","E","D","]">>],
     [pattern |-> "linkedin_scheme", repl |-> <<"[","L","I","N","K","E","D","I","N"," ","R","E","D","A","C","T","E","D","]">>],
     [pattern |-> "linkedin_bare",   repl |-> <<"[","L","I","N","K","E","D","I","N"," ","R","E","D","A","C","T","E","D","]">>],
     [pattern |-> "github_scheme",   repl |-> <<"[","G","I","T","H","U","B"," ","R","E","D","A","C","T","E","D","]">>],
     [pattern |-> "github_bare",     repl |-> <<"[","G","I","T","H","U","B"," ","R","E","D","A","C","T","E","D","]">>] >>

PatternEnd(pattern, s, i) ==
  CASE pattern = "email"           -> EmailEnd(s, i)
    [] pattern = "phone"           -> PhoneEnd(s, i)
    [] pattern = "linkedin_scheme" -> SchemeUrlEnd(s, i, LinkedInHost)
    [] pattern = "linkedin_bare"   -> PrefixedTokenEnd(s, i, LinkedInHost)
    [] pattern = "github_scheme"   -> SchemeUrlEnd(s, i, GitHubHost)
    [] pattern = "github_bare"     -> PrefixedTokenEnd(s, i, GitHubHost)

\* the leftmost position >= pos where a match starts; ends[i + 1] is the end
\* of the match at position i, or -1
NextMatch(ends, pos) == SetMin({i \in pos..(Len(ends) - 1) : ends[i + 1] # -1})

\* re.sub from position pos on: leftmost matches, left to right, not
\* overlapping
RECURSIVE ReSubFrom(_, _, _, _)
ReSubFrom(ends, repl, s, pos) ==
  IF \A i \in pos..(Len(s) - 1) : ends[i + 1] = -1
  THEN SliceFrom(s, pos)
  ELSE Slice(s, pos, NextMatch(ends, pos)) \o repl
         \o ReSubFrom(ends, repl, s, ends[NextMatch(ends, pos) + 1])

\* re.sub(pattern, repl, s) for a pattern of sanitize_sensitive_info
ReSub(pattern, repl, s) ==
  ReSubFrom([p \in 1..Len(s) |-> PatternEnd(pattern, s, p - 1)], repl, s, 0)

RECURSIVE ApplyPasses(_, _)
ApplyPasses(content, k) ==
  IF k > Len(RedactionPasses) THEN content
  ELSE ApplyPasses(ReSub(RedactionPasses[k].pattern, RedactionPasses[k].repl, content),
                   k + 1)

sanitize_sensitive_info(sections) ==
  [section_name \in DOMAIN sections |->
     IF sections[section_name] = <<>> THEN <<>>
     ELSE ApplyPasses(sections[section_name], 1)]

---------------------------------------------------------------------------
(* chunk_resume.py: section chunker *)

SectionNames == {"header", "summary", "experience", "education", "skills", "certifications"}

cert_keywords ==
  << <<"c","e","r","t","i","f","i","e","d">>,
     <<"c","e","r","t","i","f","i","c","a","t","i","o","n">>,
     <<"c","e","r","t","i","f","i","c","a","t","e">>,
     <<"l","i","c","e","n","s","e">>,
     <<"c","r","e","d","e","n","t","i","a","l">>,
     <<"a","w","a","r","d","e","d">>,
     <<"a","c","c","r","e","d","i","t","e","d">>,
     <<"q","u","a","l","i","f","i","e","d">>,
     <<"d","i","p","l","o","m","a">> >>

\* the lines extract_certifications_from_text collects
certification_lines(raw_text) ==
  LET lines == SplitOn(StripMarkup(raw_text), "\n")
      indicated(line) ==
        LET lower_line == Strip(Lower(line))
        IN  /\ Len(lower_line) >= 5
            /\ \E n \in 1..Len(cert_keywords) : Contains(lower_line, cert_keywords[n])
      found == SelectSeq(lines, indicated)
  IN  [n \in 1..Len(found) |-> Strip(found[n])]

\* a sweep that replaces what the certifications entry holds
sweep_replacing(raw_text, sections) ==
  IF certification_lines(raw_text) = <<>> THEN sections
  ELSE [sections EXCEPT !["certifications"] = Join(<<"\n">>, certification_lines(raw_text))]

\* a chunker without the certification sweep
sweep_skipped(raw_text, sections) == sections

extract_certifications_from_text(raw_text, sections) ==
  LET found == certification_lines(raw_text)
  IN  IF found = <<>> THEN sections
      ELSE IF sections["certifications"] # <<>>
      THEN [sections EXCEPT !["certifications"] = @ \o <<"\n">> \o Join(<<"\n">>, found)]
      ELSE [sections EXCEPT !["certifications"] = Join(<<"\n">>, found)]

\* a variant of the loop in which a segment replaces what its key holds
RECURSIVE FillSectionsOverwriting(_, _, _, _)
FillSectionsOverwriting(raw_text, all_matches, i, sections) ==
  IF i > Len(all_matches) - 1 THEN sections
  ELSE FillSectionsOverwriting(raw_text, all_matches, i + 1,
         [sections EXCEPT ![all_matches[i].section_key] =
            StripMarkup(Strip(Slice(raw_text, all_matches[i].end, all_matches[i + 1].start)))
              \o <<"\n">>])

\* the loop "for i in range(len(all_matches) - 1)" from index i on
RECURSIVE FillSections(_, _, _, _)
FillSections(raw_text, all_matches, i, sections) ==
  IF i > Len(all_matches) - 1 THEN sections
  ELSE LET this_heading  == all_matches[i]
           next_heading  == all_matches[i + 1]
           chunk_content == Strip(Slice(raw_text, this_heading.end, next_heading.start))
           clean_text    == StripMarkup(chunk_content)
       IN  FillSections(raw_text, all_matches, i + 1,
             [sections EXCEPT ![this_heading.section_key] = @ \o clean_text \o <<"\n">>])

NoMatchSignal == [error |-> "No matching section headings found."]

\* the SectionMap built from the boundaries, before the certification sweep
\* and the redaction
sections_from_matches(raw_text, found) ==
  LET first_heading == found[1]
      header_content == Strip(Slice(raw_text, 0, first_heading.start))
      start_sections ==
        [k \in SectionNames |-> IF k = "header" THEN StripMarkup(header_content) ELSE <<>>]
      all_matches == Append(found, [section_key |-> "end_of_document", text |-> <<>>,
                                    start |-> Len(raw_text), end |-> Len(raw_text)])
  IN  FillSections(raw_text, all_matches, 1, start_sections)

\* a variant of chunk_from_matches that answers no match with a map of
\* empty sections
chunk_from_matches_empty_map(raw_text, all_matches) ==
  IF Len(all_matches) = 0 THEN [k \in SectionNames |-> <<>>]
  ELSE sanitize_sensitive_info(
         extract_certifications_from_text(raw_text,
           sections_from_matches(raw_text, all_matches)))

\* chunk_resume_from_bold_headings after "all_matches = find_sections_by_words"
chunk_from_matches(raw_text, all_matches) ==
  IF Len(all_matches) = 0 THEN NoMatchSignal
  ELSE sanitize_sensitive_info(
         extract_certifications_from_text(raw_text,
           sections_from_matches(raw_text, all_matches)))

chunk_resume_from_bold_headings(raw_text) ==
  chunk_from_matches(raw_text, find_sections_by_words(raw_text))

---------------------------------------------------------------------------
(* resume_agents.py: field normalizer *)

\* s.replace(old, new) from position pos on
RECURSIVE ReplaceFrom(_, _, _, _)
ReplaceFrom(s, old, new, pos) ==
  LET i == Find(s, old, pos)
  IN  IF i = -1 THEN SliceFrom(s, pos)
      ELSE Slice(s, pos, i) \o new \o ReplaceFrom(s, old, new, i + Len(old))

ReplaceAll(s, old, new) == ReplaceFrom(s, old, new, 0)

\* the separator patterns of the normalizers
SeparatorEnd(pattern, s, i) ==
  CASE pattern = "to_word"   -> ToWordEnd(s, i)
    [] pattern = "dash"      -> SpacedCharEnd(s, i, {"-", EnDash, EmDash})
    [] pattern = "comma"     -> SpacedCharEnd(s, i, {","})
    [] pattern = "dash_pipe" -> DashPipeEnd(s, i)

\* re.sub(pattern, repl, s) for a separator pattern
SeparatorSub(pattern, repl, s) ==
  ReSubFrom([p \in 1..Len(s) |-> SeparatorEnd(pattern, s, p - 1)], repl, s, 0)

month_mapping ==
  << <<<<"J","a","n","u","a","r","y">>, <<"J","a","n">>>>,
     <<<<"F","e","b","r","u","a","r","y">>, <<"F","e","b">>>>,
     <<<<"M","a","r","c","h">>, <<"M","a","r">>>>,
     <<<<"A","p","r","i","l">>, <<"A","p","r">>>>,
     <<<<"M","a","y">>, <<"M","a","y">>>>,
     <<<<"J","u","n","e">>, <<"J","u","n">>>>,
     <<<<"J","u","l","y">>, <<"J","u","l">>>>,
     <<<<"A","u","g","u","s","t">>, <<"A","u","g">>>>,
     <<<<"S","e","p","t","e","m","b","e","r">>, <<"S","e","p">>>>,
     <<<<"O","c","t","o","b","e","r">>, <<"O","c","t">>>>,
     <<<<"N","o","v","e","m","b","e","r">>, <<"N","o","v">>>>,
     <<<<"D","e","c","e","m","b","e","r">>, <<"D","e","c">>>> >>

\* the loop over month_mapping for the entries lo..hi, in order (split in
\* halves to keep the evaluation shallow)
RECURSIVE AbbreviateMonths(_, _, _)
AbbreviateMonths(normalized, lo, hi) ==
  IF lo = hi
  THEN ReplaceAll(normalized, month_mapping[lo][1], month_mapping[lo][2])
  ELSE LET mid  == (lo + hi) \div 2
           left == AbbreviateMonths(normalized, lo, mid)
       IN  IF Len(left) >= 0 THEN AbbreviateMonths(left, mid + 1, hi) ELSE left

\* re.sub(r' - [^0-9]*$', ' - Till Date', s): from the first " - " that no
\* digit follows
TillDate(s) ==
  LET open_ended == {i \in 0..(Len(s) - 3) :
                       /\ LiteralAt(s, i, <<" ", "-", " ">>)
                       /\ \A j \in (i + 4)..Len(s) : s[j] \notin Digits}
  IN  IF open_ended = {} THEN s
      ELSE Slice(s, 0, SetMin(open_ended)) \o <<" ","-"," ","T","i","l","l"," ","D","a","t","e">>

normalize_work_period(work_period) ==
  IF work_period = <<>> THEN work_period
  ELSE
    Strip(TillDate(AbbreviateMonths(
      SeparatorSub("dash", <<" ", "-", " ">>,
        SeparatorSub("to_word", <<" ", "-", " ">>,
          ReplaceAll(ReplaceAll(work_period, <<EnDash>>, <<"-">>), <<EmDash>>, <<"-">>))),
      1, Len(month_mapping))))

state_mapping ==
  << <<<<"A","l","a","b","a","m","a">>, <<"A","L">>>>,
     <<<<"A","l","a","s","k","a">>, <<"A","K">>>>,
     <<<<"A","r","i","z","o","n","a">>, <<"A","Z">>>>,
     <<<<"A","r","k","a","n","s","a","s">>, <<"A","R">>>>,
     <<<<"C","a","l","i","f","o","r","n","i","a">>, <<"C","A">>>>,
     <<<<"C","o","l","o","r","a","d","o">>, <<"C","O">>>>,
     <<<<"C","o","n","n","e","c","t","i","c","u","t">>, <<"C","T">>>>,
     <<<<"D","e","l","a","w","a","r","e">>, <<"D","E">>>>,
     <<<<"F","l","o","r","i","d","a">>, <<"F","L">>>>,
     <<<<"G","e","o","r","g","i","a">>, <<"G","A">>>>,
     <<<<"H","a","w","a","i","i">>, <<"H","I">>>>,
     <<<<"I","d","a","h","o">>, <<"I","D">>>>,
     <<<<"I","l","l","i","n","o","i","s">>, <<"I","L">>>>,
     <<<<"I","n","d","i","a","n","a">>, <<"I","N">>>>,
     <<<<"I","o","w","a">>, <<"I","A">>>>,
     <<<<"K","a","n","s","a","s">>, <<"K","S">>>>,
     <<<<"K","e","n","t","u","c","k","y">>, <<"K","Y">>>>,
     <<<<"L","o","u","i","s","i","a","n","a">>, <<"L","A">>>>,
     <<<<"M","a","i","n","e">>, <<"M","E">>>>,
     <<<<"M","a","r","y","l","a","n","d">>, <<"M","D">>>>,
     <<<<"M","a","s","s","a","c","h","u","s","e","t","t","s">>, <<"M","A">>>>,
     <<<<"M","i","c","h","i","g","a","n">>, <<"M","I">>>>,
     <<<<"M","i","n","n","e","s","o","t","a">>, <<"M","N">>>>,
     <<<<"M","i","s","s","i","s","s","i","p","p","i">>, <<"M","S">>>>,
     <<<<"M","i","s","s","o","u","r","i">>, <<"M","O">>>>,
     <<<<"M","o","n","t","a","n","a">>, <<"M","T">>>>,
     <<<<"N","e","b","r","a","s","k","a">>, <<"N","E">>>>,
     <<<<"N","e","v","a","d","a">>, <<"N","V">>>>,
     <<<<"N","e","w"," ","H","a","m","p","s","h","i","r","e">>, <<"N","H">>>>,
     <<<<"N","e","w"," ","J","e","r","s","e","y">>, <<"N","J">>>>,
     <<<<"N","e","w"," ","M","e","x","i","c","o">>, <<"N","M">>>>,
     <<<<"N","e","w"," ","Y","o","r","k">>, <<"N","Y">>>>,
     <<<<"N","o","r","t","h"," ","C","a","r","o","l","i","n","a">>, <<"N","C">>>>,
     <<<<"N","o","r","t","h"," ","D","a","k","o","t","a">>, <<"N","D">>>>,
     <<<<"O","h","i","o">>, <<"O","H">>>>,
     <<<<"O","k","l","a","h","o","m","a">>, <<"O","K">>>>,
     <<<<"O","r","e","g","o","n">>, <<"O","R">>>>,
     <<<<"P","e","n","n","s","y","l","v","a","n","i","a">>, <<"P","A">>>>,
     <<<<"R","h","o","d","e"," ","I","s","l","a","n","d">>, <<"R","I">>>>,
     <<<<"S","o","u","t","h"," ","C","a","r","o","l","i","n","a">>, <<"S","C">>>>,
     <<<<"S","o","u","t","h"," ","D","a","k","o","t","a">>, <<"S","D">>>>,
     <<<<"T","e","n","n","e","s","s","e","e">>, <<"T","N">>>>,
     <<<<"T","e","x","a","s">>, <<"T","X">>>>,
     <<<<"U","t","a","h">>, <<"U","T">>>>,
     <<<<"V","e","r","m","o","n","t">>, <<"V","T">>>>,
     <<<<"V","i","r","g","i","n","i","a">>, <<"V","A">>>>,
     <<<<"W","a","s","h","i","n","g","t","o","n">>, <<"W","A">>>>,
     <<<<"W","e","s","t"," ","V","i","r","g","i","n","i","a">>, <<"W","V">>>>,
     <<<<"W","i","s","c","o","n","s","i","n">>, <<"W","I">>>>,
     <<<<"W","y","o","m","i","n","g">>, <<"W","Y">>>> >>

\* re.sub(r',\s*' + full_state + r'$', ', ' + abbrev, s, flags=IGNORECASE)
AbbreviateState(s, full_state, abbrev) ==
  LET n      == Len(s) - Len(full_state)
      named  == n >= 1 /\ Lower(SliceFrom(s, n)) = Lower(full_state)
      solid  == {i \in 1..n : ~IsSpace(s[i])}
      comma  == IF solid = {} THEN 0 ELSE SetMax(solid)
  IN  IF named /\ comma >= 1 /\ s[comma] = ","
      THEN SubSeq(s, 1, comma - 1) \o <<",", " ">> \o abbrev
      ELSE s

\* the loop over state_mapping for the entries lo..hi, in order (split in
\* halves to keep the evaluation shallow)
RECURSIVE AbbreviateStates(_, _, _)
AbbreviateStates(normalized, lo, hi) ==
  IF lo = hi
  THEN AbbreviateState(normalized, state_mapping[lo][1], state_mapping[lo][2])
  ELSE LET mid  == (lo + hi) \div 2
           left == AbbreviateStates(normalized, lo, mid)
       IN  IF Len(left) >= 0 THEN AbbreviateStates(left, mid + 1, hi) ELSE left

\* re.sub(r'^([A-Za-z\s]+)\s+([A-Z]{2})$', r'\1, \2', s)
InsertComma(s) ==
  LET n == Len(s)
  IN  IF /\ n >= 4
         /\ IsUpper(s[n]) /\ IsUpper(s[n - 1]) /\ IsSpace(s[n - 2])
         /\ \A i \in 1..(n - 3) : IsAlpha(s[i]) \/ IsSpace(s[i])
      THEN SubSeq(s, 1, n - 3) \o <<",", " ">> \o SubSeq(s, n - 1, n)
      ELSE s

normalize_location(location) ==
  IF location = <<>> THEN location
  ELSE
    Strip(
      SeparatorSub("dash_pipe", <<",", " ">>,
        SeparatorSub("comma", <<",", " ">>,
          InsertComma(
            AbbreviateStates(Join(<<" ">>, SplitWords(location)), 1, Len(state_mapping))))))


---------------------------------------------------------------------------
(* resume_agents.py: extracted data.  A JSON value is a record            *)
(* [kind, val]: kind is "str" (val: the characters), "list" (val: the     *)
(* items), "dict" (val: a function from keys to JSON values) or "null".   *)

JStr(chars) == [kind |-> "str", val |-> chars]

JList(items) == [kind |-> "list", val |-> items]

JDict(entries) == [kind |-> "dict", val |-> entries]

JNull == [kind |-> "null", val |-> <<>>]

\* the dict {}
EmptyDict == <<>>

\* bool(v)
Truthy(v) ==
  CASE v.kind = "null" -> FALSE
    [] v.kind = "dict" -> DOMAIN v.val # {}
    [] OTHER           -> v.val # <<>>

\* d.get(key), d the entries of a dict
DictGet(d, key) == IF key \in DOMAIN d THEN d[key] ELSE JNull

\* d.get(key, default)
DictGetOr(d, key, default) == IF key \in DOMAIN d THEN d[key] ELSE default

\* d[key] = value
DictSet(d, key, value) ==
  [k \in (DOMAIN d) \cup {key} |-> IF k = key THEN value ELSE d[k]]

\* [strip_bullet_prefix(item) for item in v]
StripBulletItems(v) ==
  JList([i \in 1..Len(v.val) |-> JStr(strip_bullet_prefix(v.val[i].val))])

\* if d.get(key): d[key] = [strip_bullet_prefix(item) for item in d[key]]
StripBulletsAt(d, key) ==
  IF Truthy(DictGet(d, key)) THEN DictSet(d, key, StripBulletItems(d[key])) ELSE d

\* if d.get(key): d[key] = normalize_work_period(d[key])
NormalizePeriodAt(d, key) ==
  IF Truthy(DictGet(d, key))
  THEN DictSet(d, key, JStr(normalize_work_period(d[key].val))) ELSE d

\* if d.get(key): d[key] = normalize_location(d[key])
NormalizeLocationAt(d, key) ==
  IF Truthy(DictGet(d, key))
  THEN DictSet(d, key, JStr(normalize_location(d[key].val))) ELSE d

\* if d.get(key): for item in d[key]: item = Each(item)
ForEachAt(d, key, Each(_)) ==
  IF Truthy(DictGet(d, key))
  THEN DictSet(d, key, JList([i \in 1..Len(d[key].val) |-> JDict(Each(d[key].val[i].val))]))
  ELSE d

CleanContent(section) == StripBulletsAt(section, "content")

CleanProject(project) ==
  StripBulletsAt(NormalizePeriodAt(project, "period"), "projectResponsibilities")

CleanClientProject(client_project) == StripBulletsAt(client_project, "responsibilities")

CleanJob(job) ==
  ForEachAt(
    ForEachAt(
      ForEachAt(
        StripBulletsAt(
          NormalizeLocationAt(NormalizePeriodAt(job, "workPeriod"), "location"),
          "responsibilities"),
        "subsections", CleanContent),
      "projects", CleanProject),
    "clientProjects", CleanClientProject)

CleanEducation(education) ==
  NormalizePeriodAt(NormalizeLocationAt(education, "location"), "date")

\* if not isinstance(category.get('subCategories'), list): [] 
CleanCategory(category) ==
  IF DictGet(category, "subCategories").kind # "list"
  THEN DictSet(category, "subCategories", JList(<<>>)) ELSE category

CleanCertification(cert) ==
  NormalizePeriodAt(NormalizePeriodAt(cert, "dateObtained"), "expirationDate")

\* ResumeAgent._clean_extracted_data
clean_extracted_data(agent_type, data) ==
  IF agent_type = "summary" /\ Truthy(DictGet(data, "professionalSummary"))
  THEN ForEachAt(StripBulletsAt(data, "professionalSummary"), "summarySections", CleanContent)
  ELSE IF agent_type = "experience" /\ Truthy(DictGet(data, "employmentHistory"))
  THEN ForEachAt(data, "employmentHistory", CleanJob)
  ELSE IF agent_type = "education" /\ Truthy(DictGet(data, "education"))
  THEN ForEachAt(data, "education", CleanEducation)
  ELSE IF agent_type = "skills" /\ Truthy(DictGet(data, "skillCategories"))
  THEN ForEachAt(data, "skillCategories", CleanCategory)
  ELSE IF agent_type = "certifications" /\ Truthy(DictGet(data, "certifications"))
  THEN ForEachAt(data, "certifications", CleanCertification)
  ELSE data


---------------------------------------------------------------------------
(* resume_agents.py: agents and orchestrator *)

\* the invocations of stream_resume_processing
Requests == {"r1", "r2"}

\* the agents list of process_resume_with_agents, in its order
AgentTypes == <<"header", "summary", "experience", "education", "skills", "certifications">>

AgentSet == Range(AgentTypes)

HeaderContextLen == 1000

HeaderSeparator == <<"\n","\n","-","-","-"," ","H","E","A","D","E","R"," ","S","E","C","T","I","O","N"," ","-","-","-","\n">>

\* a variant of agent_input that gives the header role its segment alone
agent_input_without_context(agent_type, sections, raw_text) ==
  IF agent_type = "certifications" THEN raw_text
  ELSE IF /\ agent_type \in DOMAIN sections
          /\ sections[agent_type] # <<>>
          /\ Strip(sections[agent_type]) # <<>>
  THEN Strip(sections[agent_type])
  ELSE raw_text

\* a variant of agent_input that takes every full-document text from the
\* redacted Document
agent_input_redacted(agent_type, sections, raw_text) ==
  IF agent_type = "certifications" THEN ApplyPasses(raw_text, 1)
  ELSE IF /\ agent_type \in DOMAIN sections
          /\ sections[agent_type] # <<>>
          /\ Strip(sections[agent_type]) # <<>>
  THEN IF agent_type = "header"
       THEN Slice(ApplyPasses(raw_text, 1), 0, HeaderContextLen) \o HeaderSeparator
              \o Strip(sections[agent_type])
       ELSE Strip(sections[agent_type])
  ELSE ApplyPasses(raw_text, 1)

\* the input _prepare_agent_inputs selects for one agent
agent_input(agent_type, sections, raw_text) ==
  LET section_key == agent_type
  IN  IF agent_type = "certifications" THEN raw_text
      ELSE IF /\ section_key \in DOMAIN sections
              /\ sections[section_key] # <<>>
              /\ Strip(sections[section_key]) # <<>>
      THEN LET chunked_content == Strip(sections[section_key])
           IN  IF agent_type = "header"
               THEN Slice(raw_text, 0, HeaderContextLen) \o HeaderSeparator \o chunked_content
               ELSE chunked_content
      ELSE raw_text

\* the strategy _prepare_agent_inputs records for one agent
agent_strategy(agent_type, sections) ==
  IF agent_type = "certifications" THEN "full_resume_always"
  ELSE IF /\ agent_type \in DOMAIN sections
          /\ sections[agent_type] # <<>>
          /\ Strip(sections[agent_type]) # <<>>
  THEN (IF agent_type = "header" THEN "chunked_with_context" ELSE "chunked_section")
  ELSE "full_resume_fallback"

prepare_agent_inputs(sections, raw_text) ==
  [inputs   |-> [a \in AgentSet |-> agent_input(a, sections, raw_text)],
   strategy |-> [a \in AgentSet |-> agent_strategy(a, sections)]]

\* a variant of create_error_result that reports the failure as a success
create_error_result_as_success(agent_type, error_message) ==
  [agent_type |-> agent_type, data |-> EmptyDict, success |-> TRUE,
   error_message |-> error_message]

\* AgentResult (processing_time, a wall-clock reading, is left out)
create_error_result(agent_type, error_message) ==
  [agent_type |-> agent_type, data |-> EmptyDict, success |-> FALSE,
   error_message |-> error_message]

\* ResumeAgent.process from the reply of the inference call on: the reply
\* either raises, or holds arguments json.loads rejects, or holds a dict
agent_process(agent_type, reply) ==
  CASE reply.kind = "raises"    -> create_error_result(agent_type, <<reply.message>>)
    [] reply.kind = "malformed" ->
         create_error_result(agent_type, <<"JSON parsing failed: ", reply.message>>)
    [] reply.kind = "ok"        ->
         [agent_type |-> agent_type,
          data |-> clean_extracted_data(agent_type, reply.data),
          success |-> TRUE, error_message |-> <<>>]

\* the default structure of _combine_agent_results
default_combined_data ==
  [name |-> JStr(<<>>), title |-> JStr(<<>>), requisitionNumber |-> JStr(<<>>),
   professionalSummary |-> JList(<<>>), summarySections |-> JList(<<>>),
   subsections |-> JList(<<>>), employmentHistory |-> JList(<<>>),
   education |-> JList(<<>>), certifications |-> JList(<<>>),
   technicalSkills |-> JDict(EmptyDict), skillCategories |-> JList(<<>>)]

\* a variant of merge_result in which every successful role also resets the
\* header fields
merge_result_shared_fields(combined_data, result) ==
  [combined_data EXCEPT
     !.name = DictGetOr(result.data, "name", JStr(<<>>)),
     !.title = DictGetOr(result.data, "title", JStr(<<>>)),
     !.requisitionNumber = DictGetOr(result.data, "requisitionNumber", JStr(<<>>))]

\* one pass of the loop "for result in results" of _combine_agent_results
merge_result(combined_data, result) ==
  LET agent_data == result.data
      take(key, default) == DictGetOr(agent_data, key, default)
  IN  CASE result.agent_type = "header" ->
             [combined_data EXCEPT
                !.name = take("name", JStr(<<>>)),
                !.title = take("title", JStr(<<>>)),
                !.requisitionNumber = take("requisitionNumber", JStr(<<>>))]
        [] result.agent_type = "summary" ->
             [combined_data EXCEPT
                !.professionalSummary = take("professionalSummary", JList(<<>>)),
                !.summarySections = take("summarySections", JList(<<>>)),
                !.subsections = take("summarySections", JList(<<>>))]
        [] result.agent_type = "experience" ->
             [combined_data EXCEPT
                !.employmentHistory = take("employmentHistory", JList(<<>>))]
        [] result.agent_type = "education" ->
             [combined_data EXCEPT !.education = take("education", JList(<<>>))]
        [] result.agent_type = "skills" ->
             [combined_data EXCEPT
                !.technicalSkills = take("technicalSkills", JDict(EmptyDict)),
                !.skillCategories = take("skillCategories", JList(<<>>))]
        [] result.agent_type = "certifications" ->
             [combined_data EXCEPT
                !.certifications = take("certifications", JList(<<>>))]
        [] OTHER -> combined_data

RECURSIVE CombineFrom(_, _, _)
CombineFrom(results, i, combined_data) ==
  IF i > Len(results) THEN combined_data
  ELSE CombineFrom(results, i + 1, merge_result(combined_data, results[i]))

combine_agent_results(results) == CombineFrom(results, 1, default_combined_data)

\* the partition of the gathered results: successful_results, in the order
\* of the agents list
successful_results(gathered) ==
  LET settled == SelectSeq(AgentTypes, LAMBDA a : a \in DOMAIN gathered)
  IN  SelectSeq([i \in 1..Len(settled) |-> gathered[settled[i]]],
                LAMBDA result : result.success)

\* a variant of all_settled that is content with one settled task
some_settled(gathered) == DOMAIN gathered # {}

\* asyncio.gather returns when every task has settled
all_settled(gathered) == DOMAIN gathered = AgentSet

final_data_event(combined_data) ==
  [type |-> "final_data", data |-> combined_data, timestamp |-> "isoformat"]

\* a variant of error_event that carries no timestamp
error_event_untimed(exception) ==
  [type |-> "error", message |-> <<"Resume processing failed: ", exception>>]

error_event(exception) ==
  [type |-> "error", message |-> <<"Resume processing failed: ", exception>>,
   timestamp |-> "isoformat"]

\* chunk_resume_from_bold_headings on the Document handed in: len(raw_text)
\* raises for a Document that is no text
chunking_raises(document) == document.kind # "str"

\* "if 'error' in sections: sections = {}"
sections_or_empty(chunked) == IF "error" \in DOMAIN chunked THEN EmptyDict ELSE chunked

\* ai_parser.py: "if update.get('type') == 'final_data': yield update"
wrapper_yields(update) == update.type = "final_data"

\* a variant of awaiter in which the reply resumes the other request
other_awaiter(call) == CHOOSE r \in Requests : r # call.request

\* the coroutine that resumes with the reply to a call: the one that made it
awaiter(call) == call.request


---------------------------------------------------------------------------
(* the environment: Documents and the replies of the inference capability *)

MaxPieces == 3

EchoLen == 4

\* lines Documents are built from: body lines, plain headings, an empty
\* line, a line holding "<>", and a heading with a tag inside the word
DocPieces ==
  << <<"A","n","n"," ","L","e","e","\n">>,
     <<"S","K","I","L","L","S","\n">>,
     <<"E","d","u","c","a","t","i","o","n",":","\n">>,
     <<"\n">>,
     <<"x"," ","<",">"," ","y","\n">>,
     <<"S","<","b",">","K","I","L","L","S">> >>

PieceDocs ==
  { Concat([i \in 1..Len(f) |-> DocPieces[f[i]]]) :
      f \in UNION { [1..k -> 1..Len(DocPieces)] : k \in 0..MaxPieces } }

\* a Document whose first HeaderContextLen characters end inside a tag
LongDoc == <<"J","o","\n","<","i"," ">> \o [i \in 1..HeaderContextLen |-> "x"] \o <<">","\n","S","K","I","L","L","S","\n","S","Q","L","\n">>

\* a Document with one line that is a heading of two sections
OverlapDoc == <<"A","n","n","\n","E","x","p","e","r","i","e","n","c","e"," ","S","u","m","m","a","r","y","\n","L","e","d"," ","x","\n">>

\* a Document with a heading of another section between two headings of
\* one section
SandwichDoc == <<"S","K","I","L","L","S","\n","E","d","u","c","a","t","i","o","n",":","\n","K","e","y"," ","S","k","i","l","l","s","\n">>

\* two headings of one section with a line of n characters between them: the
\* second starts n + 2 characters after the end of the first
GapDoc(n) ==
  <<"S","K","I","L","L","S","\n">> \o [i \in 1..n |-> "x"] \o <<"\n","K","e","y"," ","S","k","i","l","l","s","\n">>

\* Documents in which the word of the heading also occurs in a line before
\* the heading, and in a line after it
EarlierWordDoc == <<"M","y"," ","s","k","i","l","l","s","\n","\n","S","K","I","L","L","S","\n","S","Q","L","\n">>

LaterWordDoc == <<"S","K","I","L","L","S","\n","m","y"," ","s","k","i","l","l","s","\n">>

\* a Document with two headings of one section, a heading of another
\* section between them, and a body line that starts with a space inside a
\* tag pair
AccumulateDoc == <<"S","K","I","L","L","S","\n","<","b",">"," ","S","Q","L","<","/","b",">","\n","E","d","u","c","a","t","i","o","n",":","\n","B","S","\n","C","o","r","e"," ","C","o","m","p","e","t","e","n","c","i","e","s","\n","J","a","v","a","\n">>

\* Documents with a certifications heading and lines that name a
\* certification indicator inside and outside its block
CertificationDocs ==
  { <<"A","n","n","\n","L","i","c","e","n","s","e","d"," ","n","u","r","s","e","\n","C","E","R","T","I","F","I","C","A","T","I","O","N","S","\n","A","W","S"," ","C","e","r","t","i","f","i","e","d"," ","a","@","b",".","i","o","\n">>,
    <<"A","n","n","\n","C","E","R","T","I","F","I","C","A","T","I","O","N","S","\n","A","W","S"," ","<","b",">","C","e","r","t","i","f","i","e","d","<","/","b",">","\n","S","K","I","L","L","S","\n","S","Q","L","\n"," "," ","D","i","p","l","o","m","a"," ","\n">> }

HeadingDocs ==
  {OverlapDoc, SandwichDoc, GapDoc(DedupDistance - 2), GapDoc(DedupDistance - 3),
   EarlierWordDoc, LaterWordDoc, AccumulateDoc} \cup CertificationDocs

\* contact details: an email address, phone numbers, profile URLs with and
\* without a scheme and in mixed case
ContactLines ==
  { <<"a","n","n",".","l","e","e","@","m","a","i","l",".","e","x","a","m","p","l","e",".","c","o","m">>,
    <<"(","5","5","5",")"," ","1","2","3","-","4","5","6","7">>,
    <<"+","1"," ","5","5","5","-","1","2","3","-","4","5","6","7">>,
    <<"h","t","t","p","s",":","/","/","w","w","w",".","l","i","n","k","e","d","i","n",".","c","o","m","/","i","n","/","a","n","n">>,
    <<"l","i","n","k","e","d","i","n",".","c","o","m","/","i","n","/","a","n","n">>,
    <<"L","i","n","k","e","d","I","n",".","c","o","m","/","i","n","/","a","n","n">>,
    <<"h","t","t","p","s",":","/","/","g","i","t","h","u","b",".","c","o","m","/","a","n","n">>,
    <<"g","i","t","h","u","b",".","c","o","m","/","a","n","n">>,
    <<"G","i","t","H","u","b",".","c","o","m","/","a","n","n">> }

\* Documents with a contact detail in the header and in a section body
ContactDocs ==
  { <<"A","n","n"," ">> \o contact \o <<"\n","S","K","I","L","L","S","\n","S","Q","L"," ">> \o contact \o <<"\n">> :
      contact \in ContactLines }

\* Documents with the headings PROFESSIONAL SUMMARY, EXPERIENCE and EDUCATION
\* in that order, each followed by body text: with and without text before
\* the first heading, with markup, with an email address in the header, and
\* with a body line that names a diploma
EndToEndDocs ==
  { header \o <<"P","R","O","F","E","S","S","I","O","N","A","L"," ","S","U","M","M","A","R","Y","\n">> \o summary \o <<"\n","E","X","P","E","R","I","E","N","C","E","\n","A","c","m","e","\n","E","D","U","C","A","T","I","O","N","\n">> \o education \o <<"\n">> :
      header \in { <<"A","n","n","\n">>, <<"<","b",">","A","n","n","<","/","b",">"," ","L","e","e","\n">>, <<>>, <<"A","n","n"," ","a","@","b",".","i","o","\n">> },
      summary \in { <<"L","e","d"," ","x">>, <<"L","e","d"," ","<","i",">","x","<","/","i",">">> },
      education \in { <<"B","S">>, <<"D","i","p","l","o","m","a"," ","i","n"," ","C","S">> } }

ChunkDocuments ==
  { JStr(d) : d \in PieceDocs \cup {LongDoc} \cup HeadingDocs \cup ContactDocs \cup EndToEndDocs }

\* the Documents of the request life cycle: no text at all, no heading,
\* headings with bodies, a heading at the very start with an empty body
FlowDocuments ==
  { JNull,
    JStr(<<"A","n","n"," ","L","e","e","\n","e","n","g","i","n","e","e","r">>),
    JStr(<<"A","n","n","\n","\n","S","K","I","L","L","S","\n","S","Q","L","\n","E","D","U","C","A","T","I","O","N","\n","B","S">>),
    JStr(<<"S","K","I","L","L","S","\n","\n","E","D","U","C","A","T","I","O","N","\n","B","S">>) }

\* the Documents of two concurrent requests
PairDocuments ==
  [r \in Requests |->
     IF r = "r1"
     THEN JStr(<<"A","n","n","\n","\n","S","K","I","L","L","S","\n","S","Q","L","\n","E","D","U","C","A","T","I","O","N","\n","B","S">>)
     ELSE JStr(<<"B","o","b","\n","\n","S","U","M","M","A","R","Y","\n","L","e","d"," ","x","\n","S","K","I","L","L","S","\n","J","a","v","a">>)]

Echo(input) == Slice(input, 0, EchoLen)

\* a full answer of a role: it quotes the start of its input
FullExtraction(agent_type, input) ==
  CASE agent_type = "header" ->
         [name |-> JStr(Echo(input)), title |-> JStr(<<"D","e","v">>),
          requisitionNumber |-> JStr(<<"R","1">>)]
    [] agent_type = "summary" ->
         [professionalSummary |-> JList(<<JStr(<<"-"," ">> \o Echo(input))>>),
            summarySections |->
              JList(<<JDict([title |-> JStr(<<"T">>),
                             content |-> JList(<<JStr(<<"*"," ","x">>)>>)])>>)]
    [] agent_type = "experience" ->
         [employmentHistory |->
              JList(<<JDict([companyName |-> JStr(Echo(input)),
                             workPeriod |-> JStr(<<"J","a","n","u","a","r","y"," ","2","0","2","0"," ","t","o"," ","P","r","e","s","e","n","t">>),
                             location |-> JStr(<<"D","a","l","l","a","s"," ","T","X">>),
                             responsibilities |-> JList(<<JStr(<<"-"," ","B","u","i","l","t">>)>>)])>>)]
    [] agent_type = "education" ->
         [education |->
              JList(<<JDict([degree |-> JStr(Echo(input)),
                             date |-> JStr(<<"J","u","n","e"," ","2","0","1","0">>)])>>)]
    [] agent_type = "skills" ->
         [technicalSkills |-> JDict(EmptyDict),
            skillCategories |->
              JList(<<JDict([categoryName |-> JStr(Echo(input)),
                             skills |-> JList(<<JStr(<<"S","Q","L">>)>>)])>>)]
    [] agent_type = "certifications" ->
         [certifications |->
              JList(<<JDict([name |-> JStr(Echo(input)),
                             dateObtained |-> JStr(<<"M","a","r","c","h"," ","2","0","2","1">>)])>>)]

\* sparse answers: keys left out, lists left empty, a key held with null
SparseAnswers(agent_type) ==
  CASE agent_type = "header"  -> << [name |-> JStr(<<>>)],
                                    [name |-> JStr(<<"A","n","n">>), title |-> JNull] >>
    [] agent_type = "summary" -> << [professionalSummary |-> JList(<<>>)] >>
    [] agent_type = "skills"  -> << EmptyDict >>
    [] OTHER                  -> <<>>

SparseExtractions(agent_type) == Range(SparseAnswers(agent_type))

Extractions(agent_type, input) ==
  {FullExtraction(agent_type, input)} \cup SparseExtractions(agent_type)

RaisesReply == [kind |-> "raises", message |-> "Connection error."]

MalformedReply == [kind |-> "malformed", message |-> "Expecting value"]

OkReplies(call) ==
  { [kind |-> "ok", data |-> d] : d \in Extractions(call.agent_type, call.input) }

\* every reply the inference call may give
Replies(call) == {RaisesReply, MalformedReply} \cup OkReplies(call)

\* the replies of the two-request runs: the full answer, and for one of
\* the roles also a failure
PairMayFail == {"header"}

PairReplies(call) ==
  { [kind |-> "ok", data |-> FullExtraction(call.agent_type, call.input)] }
    \cup (IF call.agent_type \in PairMayFail THEN {RaisesReply} ELSE {})


---------------------------------------------------------------------------
(* the state machine *)

VARIABLES
  extracted_text,   \* the Document each request was invoked on
  pc,               \* where each request stands
  found_sections,   \* chunk_resume: all_matches of the request
  chunk_result,     \* the value chunk_resume_from_bold_headings returned
  agent_sections,   \* "sections" of process_resume_with_agents
  agent_inputs,     \* agent_inputs['inputs']
  calls,            \* the inference calls in flight at the shared client
  replies,          \* per request and role, the reply its call got
  agent_results,    \* per request, the results gathered so far
  events,           \* what process_resume_with_agents has yielded
  received,         \* what the caller of stream_resume_processing got
  merge_input,      \* a list of results handed to _combine_agent_results
  merge_output,     \* the records it returned for that list
  fn,               \* the text function applied on its own, "" for none
  fn_values         \* its input, and the value after each application

requestVars == <<extracted_text, pc, found_sections, chunk_result, agent_sections,
                 agent_inputs, calls, replies, agent_results, events, received>>

mergeVars == <<merge_input, merge_output>>

fnVars == <<fn, fn_values>>

vars == <<extracted_text, pc, found_sections, chunk_result, agent_sections,
          agent_inputs, calls, replies, agent_results, events, received,
          merge_input, merge_output, fn, fn_values>>

\* no text function is applied on its own
NoFunction == fn = "" /\ fn_values = <<>>

\* requests "absent" are never invoked
InitRequests(active) ==
  /\ pc = [r \in Requests |-> IF r \in active THEN "ready" ELSE "absent"]
  /\ found_sections = [r \in Requests |-> <<>>]
  /\ chunk_result = [r \in Requests |-> EmptyDict]
  /\ agent_sections = [r \in Requests |-> EmptyDict]
  /\ agent_inputs = [r \in Requests |-> EmptyDict]
  /\ calls = {}
  /\ replies = [r \in Requests |-> EmptyDict]
  /\ agent_results = [r \in Requests |-> EmptyDict]
  /\ events = [r \in Requests |-> <<>>]
  /\ received = [r \in Requests |-> <<>>]

\* process_resume_with_agents up to "await asyncio.gather": chunking, the
\* no-match fallback, input preparation and the creation of the six tasks;
\* an exception on the way is caught and yielded as the error event
Start(r) ==
  /\ pc[r] = "ready"
  /\ IF chunking_raises(extracted_text[r])
     THEN /\ events' = [events EXCEPT
                          ![r] = Append(@, error_event("object of type 'NoneType' has no len()"))]
          /\ pc' = [pc EXCEPT ![r] = "yielded"]
          /\ UNCHANGED <<found_sections, chunk_result, agent_sections, agent_inputs, calls>>
     ELSE \E found \in {find_sections_by_words(extracted_text[r].val)} :
          \E chunked \in {chunk_from_matches(extracted_text[r].val, found)} :
          \E prepared \in {prepare_agent_inputs(sections_or_empty(chunked),
                                                extracted_text[r].val)} :
              /\ found_sections' = [found_sections EXCEPT ![r] = found]
              /\ chunk_result' = [chunk_result EXCEPT ![r] = chunked]
              /\ agent_sections' = [agent_sections EXCEPT ![r] = sections_or_empty(chunked)]
              /\ agent_inputs' = [agent_inputs EXCEPT ![r] = prepared.inputs]
              /\ calls' = calls \cup
                   { [request |-> r, agent_type |-> a, input |-> prepared.inputs[a]] :
                       a \in AgentSet }
              /\ pc' = [pc EXCEPT ![r] = "gathering"]
              /\ UNCHANGED events
  /\ UNCHANGED <<extracted_text, replies, agent_results, received, merge_input, merge_output, fn, fn_values>>

\* ResumeAgent.process from the reply on: the awaiting coroutine resumes,
\* cleans the data or builds the error result, and its task settles
Respond(call, reply) ==
  /\ call \in calls
  /\ pc[awaiter(call)] = "gathering"
  /\ calls' = calls \ {call}
  /\ replies' = [replies EXCEPT
                   ![awaiter(call)] = DictSet(@, call.agent_type, reply)]
  /\ \E result \in {agent_process(call.agent_type, reply)} :
       agent_results' = [agent_results EXCEPT
                           ![awaiter(call)] = DictSet(@, call.agent_type, result)]
  /\ UNCHANGED <<extracted_text, pc, found_sections, chunk_result, agent_sections,
                 agent_inputs, events, received, merge_input, merge_output, fn, fn_values>>

\* process_resume_with_agents after the gather: partition the results,
\* combine the successful ones, yield final_data
Merge(r) ==
  /\ pc[r] = "gathering"
  /\ all_settled(agent_results[r])
  /\ events' = [events EXCEPT
                  ![r] = Append(@, final_data_event(
                                     combine_agent_results(successful_results(agent_results[r]))))]
  /\ pc' = [pc EXCEPT ![r] = "yielded"]
  /\ UNCHANGED <<extracted_text, found_sections, chunk_result, agent_sections, agent_inputs,
                 calls, replies, agent_results, received, merge_input, merge_output, fn, fn_values>>

\* stream_resume_processing: the loop over the updates of the orchestrator;
\* its own except clause needs an exception out of the orchestrator, which
\* catches every Exception itself
Deliver(r) ==
  /\ pc[r] = "yielded"
  /\ received' = [received EXCEPT
                    ![r] = IF wrapper_yields(events[r][Len(events[r])])
                           THEN Append(@, events[r][Len(events[r])])
                           ELSE @]
  /\ pc' = [pc EXCEPT ![r] = "closed"]
  /\ UNCHANGED <<extracted_text, found_sections, chunk_result, agent_sections, agent_inputs,
                 calls, replies, agent_results, events, merge_input, merge_output, fn, fn_values>>

\* one request, every Document of FlowDocuments, every reply
Init ==
  /\ extracted_text \in { [r \in Requests |-> IF r = "r1" THEN d ELSE JNull] : d \in FlowDocuments }
  /\ InitRequests({"r1"})
  /\ merge_input = <<>>
  /\ merge_output = <<>>
  /\ NoFunction

Next ==
  \/ \E r \in Requests : Start(r)
  \/ \E call \in calls : \E reply \in Replies(call) : Respond(call, reply)
  \/ \E r \in Requests : Merge(r)
  \/ \E r \in Requests : Deliver(r)

Spec == Init /\ [][Next]_vars

\* two concurrent requests on different Documents
InitPair ==
  /\ extracted_text = PairDocuments
  /\ InitRequests(Requests)
  /\ merge_input = <<>>
  /\ merge_output = <<>>
  /\ NoFunction

NextPair ==
  \/ \E r \in Requests : Start(r)
  \/ \E call \in calls : \E reply \in PairReplies(call) : Respond(call, reply)
  \/ \E r \in Requests : Merge(r)
  \/ \E r \in Requests : Deliver(r)

SpecPair == InitPair /\ [][NextPair]_vars

\* chunking and input preparation alone, over every Document of ChunkDocuments
InitChunk ==
  /\ extracted_text \in { [r \in Requests |-> IF r = "r1" THEN d ELSE JNull] : d \in ChunkDocuments }
  /\ InitRequests({"r1"})
  /\ merge_input = <<>>
  /\ merge_output = <<>>
  /\ NoFunction

NextChunk == \E r \in Requests : Start(r)

SpecChunk == InitChunk /\ [][NextChunk]_vars


\* _combine_agent_results alone, over every ordering of every set of
\* successful results
MaxMerged == 6

ProbeInput == <<"A","c","m","e"," ","I","n","c">>

\* an education entry as the Education role returns it
Degree(degree, date) == JDict([degree |-> JStr(degree), date |-> JStr(date)])

\* answers given to the merge-only runs beside the sparse ones: an empty
\* professionalSummary beside a subsection, a job with a subsection and a
\* project, degrees out of order and not standardized, a category whose
\* subCategories is a text and a category with a name only
ShapedAnswers(agent_type) ==
  CASE agent_type = "summary" ->
         << [professionalSummary |-> JList(<<>>),
             summarySections |->
               JList(<<JDict([title |-> JStr(<<"T">>),
                              content |-> JList(<<JStr(<<"*"," ","x">>)>>)])>>)] >>
    [] agent_type = "experience" ->
         << [employmentHistory |->
               JList(<<JDict([companyName |-> JStr(<<"A","c","m","e">>),
                              responsibilities |-> JList(<<JStr(<<"-"," ","B","u","i","l","t">>)>>),
                              subsections |->
                                JList(<<JDict([title |-> JStr(<<"T">>),
                                               content |-> JList(<<JStr(<<"*"," ","x">>)>>)])>>),
                              projects |->
                                JList(<<JDict([projectName |-> JStr(<<"P">>),
                                               projectResponsibilities |->
                                                 JList(<<JStr(<<"-"," ","y">>)>>)])>>)])>>)] >>
    [] agent_type = "education" ->
         << [education |-> JList(<<Degree(<<"P","h","D">>, <<"2","0","1","5">>),
                                   Degree(<<"B","T","e","c","h">>, <<"2","0","0","8">>),
                                   Degree(<<"M","B","A">>, <<"2","0","1","2">>)>>)] >>
    [] agent_type = "skills" ->
         << [skillCategories |->
               JList(<<JDict([categoryName |-> JStr(<<"D","B">>),
                              skills |-> JList(<<JStr(<<"S","Q","L">>)>>),
                              subCategories |-> JStr(<<"x">>)]),
                       JDict([categoryName |-> JStr(<<"W","e","b">>)])>>)] >>
    [] OTHER -> <<>>

MergeAnswers(agent_type) == SparseAnswers(agent_type) \o ShapedAnswers(agent_type)

\* the successful result of a role on the full answer (n = 0) or on its
\* n-th other answer
SuccessfulResult(agent_type, n) ==
  agent_process(agent_type,
    [kind |-> "ok",
     data |-> IF n = 0 THEN FullExtraction(agent_type, ProbeInput)
              ELSE MergeAnswers(agent_type)[n]])

ResultTable ==
  [a \in AgentSet |-> [n \in 0..Len(MergeAnswers(a)) |-> SuccessfulResult(a, n)]]

Arrangements ==
  UNION { { f \in [1..k -> AgentSet] : \A i, j \in 1..k : i # j => f[i] # f[j] } :
            k \in 0..MaxMerged }

\* which answer each role gave
AnswerChoices ==
  { g \in [AgentSet -> 0..SetMax({Len(MergeAnswers(a)) : a \in AgentSet})] :
      \A a \in AgentSet : g[a] <= Len(MergeAnswers(a)) }

MergeInputs ==
  { [i \in 1..Len(f) |-> ResultTable[f[i]][g[f[i]]]] :
      f \in Arrangements, g \in AnswerChoices }

InitMerge ==
  /\ extracted_text = [r \in Requests |-> JNull]
  /\ InitRequests({})
  /\ merge_input \in MergeInputs
  /\ merge_output = <<>>
  /\ NoFunction

CombineResults ==
  /\ merge_output = <<>>
  /\ merge_output' = <<combine_agent_results(merge_input)>>
  /\ UNCHANGED <<requestVars, merge_input, fnVars>>

NextMerge == CombineResults

SpecMerge == InitMerge /\ [][NextMerge]_vars

---------------------------------------------------------------------------
(* properties of the request life cycle *)

\* strip_bullet_prefix, normalize_work_period and normalize_location alone,
\* each applied again and again to its own result
MaxTokens == 4

MaxApplications == 2

BulletTokens == <<<<"-">>, <<"-"," ">>, <<"*">>, <<"u2022">>, <<" ">>, <<"a">>, <<".">>>>

PeriodTokens == <<<<"J","a","n","u","a","r","y">>, <<"u","a","r","y">>, <<" ","2","0","2","2">>, <<" ","t","o"," ">>, <<"u2013">>, <<"P","r","e","s","e","n","t">>>>

LocationTokens == <<<<"D","a","l","l","a","s">>, <<"T","X">>, <<" ">>, <<",">>, <<"-">>, <<"|">>>>

\* the texts of up to MaxTokens tokens
TokenTexts(tokens) ==
  { Concat([i \in 1..Len(f) |-> tokens[f[i]]]) :
      f \in UNION { [1..k -> 1..Len(tokens)] : k \in 0..MaxTokens } }

PeriodExamples ==
  { <<"J","a","n","u","a","r","y"," ","2","0","2","2"," ","t","o"," ","F","e","b","r","u","a","r","y"," ","2","0","2","3">>,
    <<"M","a","r"," ","2","0","2","1"," ","t","o"," ","P","r","e","s","e","n","t">> }

LocationExamples ==
  { <<"D","a","l","l","a","s"," ","T","X">>,
    <<"B","o","s","t","o","n"," ",","," ","M","a","s","s","a","c","h","u","s","e","t","t","s">> }

\* the longest match list given to remove_duplicate_sections
MaxMatches == 3

\* matches of two sections, short and long, at starts around the distance
\* of DedupDistance from the first
SampleMatches ==
  { [section_key |-> key, text |-> <<"x">>, start |-> start, end |-> start + length] :
      key \in {"skills", "education"},
      start \in {0, 50, DedupDistance + 5, DedupDistance + 6, DedupDistance + 100},
      length \in {6, 100} }

\* the start-sorted match lists of up to MaxMatches matches
MatchLists ==
  UNION { { f \in [1..k -> SampleMatches] :
              \A i \in 1..(k - 1) : f[i].start <= f[i + 1].start } :
          k \in 0..MaxMatches }

MarkupTokens == <<<<"x">>, <<"\n">>, <<"<","b",">">>, <<"<","/","b",">">>, <<"<">>, <<">">>, <<"<"," ">>>>

FunctionInputs ==
  [ strip_bullet_prefix    |-> TokenTexts(BulletTokens),
    normalize_work_period  |-> TokenTexts(PeriodTokens) \cup PeriodExamples,
    normalize_location     |-> TokenTexts(LocationTokens) \cup LocationExamples,
    find_original_position |-> TokenTexts(MarkupTokens),
    remove_duplicate_sections |-> MatchLists ]

InitFunction ==
  /\ fn \in DOMAIN FunctionInputs
  /\ fn_values \in { <<text>> : text \in FunctionInputs[fn] }
  /\ extracted_text = [r \in Requests |-> JNull]
  /\ InitRequests({})
  /\ merge_input = <<>>
  /\ merge_output = <<>>

StripBulletPrefix ==
  /\ fn = "strip_bullet_prefix"
  /\ Len(fn_values) <= MaxApplications
  /\ fn_values' = Append(fn_values, strip_bullet_prefix(fn_values[Len(fn_values)]))
  /\ UNCHANGED <<requestVars, mergeVars, fn>>

NormalizeWorkPeriod ==
  /\ fn = "normalize_work_period"
  /\ Len(fn_values) <= MaxApplications
  /\ fn_values' = Append(fn_values, normalize_work_period(fn_values[Len(fn_values)]))
  /\ UNCHANGED <<requestVars, mergeVars, fn>>

NormalizeLocation ==
  /\ fn = "normalize_location"
  /\ Len(fn_values) <= MaxApplications
  /\ fn_values' = Append(fn_values, normalize_location(fn_values[Len(fn_values)]))
  /\ UNCHANGED <<requestVars, mergeVars, fn>>

\* find_original_position applied to the text at every clean offset up to
\* the length of the markup-stripped text: the value at k + 1 is the
\* position returned for clean offset k
FindOriginalPosition ==
  /\ fn = "find_original_position"
  /\ Len(fn_values) = 1
  /\ fn_values' = Append(fn_values,
                          [n \in 1..(Len(StripMarkup(fn_values[1])) + 1) |->
                             find_original_position(fn_values[1], n - 1)])
  /\ UNCHANGED <<requestVars, mergeVars, fn>>

RemoveDuplicateSections ==
  /\ fn = "remove_duplicate_sections"
  /\ Len(fn_values) <= MaxApplications
  /\ fn_values' = Append(fn_values, remove_duplicate_sections(fn_values[Len(fn_values)]))
  /\ UNCHANGED <<requestVars, mergeVars, fn>>

NextFunction ==
  \/ StripBulletPrefix
  \/ NormalizeWorkPeriod
  \/ NormalizeLocation
  \/ FindOriginalPosition
  \/ RemoveDuplicateSections

SpecFunction == InitFunction /\ [][NextFunction]_vars

Yielded(r) == events[r] # <<>>

LastEvent(r) == events[r][Len(events[r])]

YieldedRecord(r) == Yielded(r) /\ LastEvent(r).type = "final_data"

\* C1: every invocation of stream_resume_processing hands its caller exactly
\* one terminal value, a final_data event or an error message, never both
\* and never neither, whatever happens inside chunking, role calls or merge.
C1_ExactlyOneTerminalValue ==
  \A r \in Requests :
    pc[r] = "closed" =>
      /\ Len(received[r]) = 1
      /\ received[r][1].type \in {"final_data", "error"}

FieldOwner ==
  [name |-> "header", title |-> "header", requisitionNumber |-> "header",
   professionalSummary |-> "summary", summarySections |-> "summary",
   subsections |-> "summary", employmentHistory |-> "experience",
   education |-> "education", certifications |-> "certifications",
   technicalSkills |-> "skills", skillCategories |-> "skills"]

FieldSource ==
  [field \in DOMAIN FieldOwner |->
     IF field = "subsections" THEN "summarySections" ELSE field]

\* C4: for every combination of outcomes of the six roles, each top-level
\* field of the merged record equals the value returned by the role that
\* owns it when that role succeeded, and the default empty value when that
\* role failed.
C4_FieldsComeFromOwners ==
  \A r \in Requests :
    YieldedRecord(r) =>
      \A field \in DOMAIN default_combined_data :
        LastEvent(r).data[field] =
          IF agent_results[r][FieldOwner[field]].success
          THEN DictGetOr(agent_results[r][FieldOwner[field]].data, FieldSource[field],
                         default_combined_data[field])
          ELSE default_combined_data[field]

C4_ExactlyOneRoleRaised ==
  \E r \in Requests :
    /\ YieldedRecord(r)
    /\ replies[r]["experience"].kind = "raises"
    /\ \A a \in AgentSet \ {"experience"} :
         /\ replies[r][a].kind = "ok"
         /\ replies[r][a].data = FullExtraction(a, agent_inputs[r][a])
    /\ LastEvent(r).data.employmentHistory = JList(<<>>)
    /\ LastEvent(r).data.name # JStr(<<>>)
    /\ LastEvent(r).data.certifications # JList(<<>>)

\* C5: the merge starts only after all six role calls have settled; no
\* record is built or emitted while a role call of the request is still in
\* flight, and no completion order among the six is required.
C5_MergeAfterAllSettled ==
  \A r \in Requests :
    YieldedRecord(r) =>
      /\ DOMAIN agent_results[r] = AgentSet
      /\ \A call \in calls : call.request # r

C5_LastCallStillInFlight ==
  \E r \in Requests :
    /\ pc[r] = "gathering"
    /\ Cardinality(DOMAIN agent_results[r]) = Len(AgentTypes) - 1
    /\ "header" \notin DOMAIN agent_results[r]
    /\ ~Yielded(r)

---------------------------------------------------------------------------
(* properties of the merge *)

ProbeData == [field \in DOMAIN default_combined_data |-> JStr(<<"p","r","o","b","e">>)]

\* the roles whose result changes a field of the record
WritersOf(field) ==
  { a \in AgentSet :
      merge_result(default_combined_data,
                   [agent_type |-> a, data |-> ProbeData, success |-> TRUE,
                    error_message |-> <<>>])[field]
        # default_combined_data[field] }

\* the results of a list, in the order of the agents list
InAgentOrder(results) ==
  successful_results(
    [a \in {results[i].agent_type : i \in DOMAIN results} |->
       CHOOSE result \in Range(results) : result.agent_type = a])

\* C6: every field of the record is written by exactly one role, and merging
\* the same set of successful results in any order yields the same record.
C6_DisjointOwnershipAnyOrder ==
  /\ \A field \in DOMAIN default_combined_data : Cardinality(WritersOf(field)) = 1
  /\ merge_output # <<>> =>
       merge_output[1] = combine_agent_results(InAgentOrder(merge_input))

C6_MergedInReverseOrder ==
  /\ merge_output # <<>>
  /\ Len(merge_input) = Len(AgentTypes)
  /\ \A i \in DOMAIN merge_input :
       merge_input[i].agent_type = AgentTypes[Len(AgentTypes) + 1 - i]
  /\ merge_output[1].name # JStr(<<>>)
  /\ merge_output[1].certifications # JList(<<>>)

---------------------------------------------------------------------------
(* properties of two concurrent requests *)

\* the inputs each request prepares from its own Document
OwnInputs ==
  [r \in Requests |->
     prepare_agent_inputs(
       sections_or_empty(chunk_resume_from_bold_headings(PairDocuments[r].val)),
       PairDocuments[r].val).inputs]

OwnCall(r, a) == [request |-> r, agent_type |-> a, input |-> OwnInputs[r][a]]

\* C7: two concurrent requests share only the inference client: the results
\* and the record of each are built only from its own Document and its own
\* six replies, under every interleaving of the twelve calls; no data of one
\* request appears in the record of the other.
C7_RequestsStayApart ==
  /\ \A call \in calls : call = OwnCall(call.request, call.agent_type)
  /\ \A r \in Requests :
       /\ extracted_text[r] = PairDocuments[r]
       /\ DOMAIN agent_inputs[r] # {} => agent_inputs[r] = OwnInputs[r]
       /\ \A a \in DOMAIN agent_results[r] :
            /\ replies[r][a] \in PairReplies(OwnCall(r, a))
            /\ agent_results[r][a] = agent_process(a, replies[r][a])
            /\ agent_results[r][a].success =>
                 \A other \in Requests \ {r} :
                   replies[r][a] \notin PairReplies(OwnCall(other, a))
       /\ YieldedRecord(r) =>
            LastEvent(r).data = combine_agent_results(successful_results(agent_results[r]))

C7_BothRequestsServed ==
  /\ \A r \in Requests :
       /\ pc[r] = "closed"
       /\ Len(received[r]) = 1
       /\ received[r][1].data.name = JStr(Echo(PairDocuments[r].val))
  /\ received["r1"][1].data # received["r2"][1].data

---------------------------------------------------------------------------
(* properties of chunking and input selection *)

Prepared(r) == pc[r] = "gathering"

\* C8: for a Document with no recognizable heading line the chunker returns
\* the explicit no-match signal, not a map of sections; the request is not
\* failed, and each of the six roles is given the full Document.
C8_NoHeadingFallsBackToFullDocument ==
  \A r \in Requests :
    (pc[r] # "ready" /\ pc[r] # "absent" /\ found_sections[r] = <<>>
       /\ ~chunking_raises(extracted_text[r])) =>
      /\ DOMAIN chunk_result[r] = {"error"}
      /\ Prepared(r)
      /\ events[r] = <<>>
      /\ \A a \in AgentSet :
           /\ agent_inputs[r][a] = extracted_text[r].val
           /\ [request |-> r, agent_type |-> a, input |-> extracted_text[r].val] \in calls

C8_DocumentWithoutHeading ==
  \E r \in Requests :
    /\ Prepared(r)
    /\ found_sections[r] = <<>>
    /\ Len(SplitOn(extracted_text[r].val, "\n")) >= 3
    /\ Contains(extracted_text[r].val, <<"x"," ","<",">"," ","y">>)

\* the segment of a role in the section map, empty when the map has none
Segment(r, a) ==
  IF a \in DOMAIN agent_sections[r] THEN agent_sections[r][a] ELSE <<>>

Solid(segment) == {i \in DOMAIN segment : ~IsSpace(segment[i])}

Trimmed(segment) == SubSeq(segment, SetMin(Solid(segment)), SetMax(Solid(segment)))

\* C9 as stated: Certifications always gets the full Document; Summary,
\* Experience, Education and Skills get their chunked segment when it is
\* non-empty and otherwise the full Document; Header gets the first 1000
\* characters of the Document concatenated with the chunked header segment
\* when that segment is non-empty and otherwise the full Document.
C9_InputSelectionAsStated ==
  \A r \in Requests :
    Prepared(r) =>
      \A a \in AgentSet :
        agent_inputs[r][a] =
          IF a = "certifications" \/ Segment(r, a) = <<>>
          THEN extracted_text[r].val
          ELSE IF a = "header"
          THEN Slice(extracted_text[r].val, 0, 1000) \o Segment(r, a)
          ELSE Segment(r, a)

\* C9: Certifications always gets the full Document; every other role gets
\* the full Document when its segment holds no character other than white
\* space; otherwise Summary, Experience, Education and Skills get their
\* segment with the white space at both ends removed, and Header gets the
\* first 1000 characters of the Document, the separator line, and its
\* segment with the white space at both ends removed.
C9_InputSelection ==
  \A r \in Requests :
    Prepared(r) =>
      \A a \in AgentSet :
        agent_inputs[r][a] =
          IF a = "certifications" \/ Solid(Segment(r, a)) = {}
          THEN extracted_text[r].val
          ELSE IF a = "header"
          THEN SubSeq(extracted_text[r].val, 1, Min2(1000, Len(extracted_text[r].val)))
                 \o HeaderSeparator \o Trimmed(Segment(r, a))
          ELSE Trimmed(Segment(r, a))

C9_BlankAndTrimmedSegments ==
  \E r \in Requests :
    /\ Prepared(r)
    /\ Solid(Segment(r, "header")) # {}
    /\ agent_inputs[r]["header"] # extracted_text[r].val
    /\ Segment(r, "skills") # <<>>
    /\ Solid(Segment(r, "skills")) = {}
    /\ agent_inputs[r]["skills"] = extracted_text[r].val
    /\ Solid(Segment(r, "education")) # {}
    /\ Trimmed(Segment(r, "education")) # Segment(r, "education")
    /\ agent_inputs[r]["education"] = Trimmed(Segment(r, "education"))

\* C10: every match the boundary detector returns satisfies
\* 0 <= start <= end <= len(Document), for every Document, markup tags
\* inside or around heading words included.
C10_OffsetsWithinDocument ==
  \A r \in Requests :
    \A i \in DOMAIN found_sections[r] :
      /\ 0 <= found_sections[r][i].start
      /\ found_sections[r][i].start <= found_sections[r][i].end
      /\ found_sections[r][i].end <= Len(extracted_text[r].val)

\* C11: in every list of matches the boundary detector returns the matches
\* are strictly ascending by start: no two matches have the same start.
C11_StrictlyAscendingStarts ==
  \A r \in Requests :
    \A i, j \in DOMAIN found_sections[r] :
      i < j => found_sections[r][i].start < found_sections[r][j].start

\* the matches of the Document of request r before deduplication
Candidates(r) == sorted_matches(extracted_text[r].val)

\* match later is a duplicate of match earlier: same section_key, and it
\* starts less than DedupDistance after the end of the earlier one
TooClose(earlier, later) ==
  /\ later.section_key = earlier.section_key
  /\ later.start - earlier.end < DedupDistance

\* the last index of kept before i, or 0
LastKept(kept, i) == SetMax({0} \cup {k \in kept : k < i})

\* C12: after deduplication no two adjacent surviving matches have the same
\* section_key with the later one starting less than 200 characters after
\* the end of the earlier one; a match of the sorted list is dropped exactly
\* when its section_key equals that of the immediately preceding surviving
\* match and its start is less than 200 after that match's end.
C12_DroppedExactlyWhenTooClose ==
  \A r \in Requests :
    Prepared(r) =>
      \E sorted \in {Candidates(r)} :
        /\ \A i \in 1..(Len(found_sections[r]) - 1) :
             ~TooClose(found_sections[r][i], found_sections[r][i + 1])
        /\ \E kept \in SUBSET DOMAIN sorted :
             /\ found_sections[r] = KeepIndices(sorted, kept)
             /\ \A i \in DOMAIN sorted :
                  i \notin kept <=>
                    /\ LastKept(kept, i) # 0
                    /\ TooClose(sorted[LastKept(kept, i)], sorted[i])

C12_HeadingDroppedAtTheBound ==
  \E r \in Requests :
    /\ Prepared(r)
    /\ Len(found_sections[r]) = 1
    /\ \E sorted \in {Candidates(r)} :
         /\ Len(sorted) = 2
         /\ sorted[2].section_key = sorted[1].section_key
         /\ sorted[2].start - sorted[1].end = DedupDistance - 1

\* C13: in the list of matches the boundary detector returns, no two
\* matches of the same section_key, adjacent in the list or not, lie within
\* 200 characters of each other.
C13_NoSameKeyWithinDistance ==
  \A r \in Requests :
    \A i, j \in DOMAIN found_sections[r] :
      i < j => ~TooClose(found_sections[r][i], found_sections[r][j])

\* the value after the n-th application of the function applied on its own
Applied(n) == fn_values[n + 1]

\* C14: strip_bullet_prefix is idempotent: for every text x,
\* strip_bullet_prefix(strip_bullet_prefix(x)) = strip_bullet_prefix(x),
\* nested bullet markers and leading white space included.
C14_StripBulletPrefixIdempotent ==
  (fn = "strip_bullet_prefix" /\ Len(fn_values) >= 3) => Applied(2) = Applied(1)

C14_NestedBulletsStripped ==
  /\ fn = "strip_bullet_prefix"
  /\ Len(fn_values) >= 3
  /\ Applied(0) # <<>>
  /\ IsSpace(Applied(0)[1])
  /\ strip_bullet_once(Applied(0)) # Applied(0)
  /\ strip_bullet_once(strip_bullet_once(Applied(0))) # strip_bullet_once(Applied(0))
  /\ Applied(1) = <<"a">>

\* C15: normalize_work_period is idempotent: for every text x,
\* normalize_work_period(normalize_work_period(x)) = normalize_work_period(x).
C15_NormalizeWorkPeriodIdempotent ==
  (fn = "normalize_work_period" /\ Len(fn_values) >= 3) => Applied(2) = Applied(1)

\* C16: the output of normalize_work_period contains no full month name
\* (January, February, March, April, June, July, August, September,
\* October, November, December); "January 2022 to February 2023" gives
\* "Jan 2022 - Feb 2023" and "Mar 2021 to Present" gives
\* "Mar 2021 - Till Date".
C16_NoFullMonthNameLeft ==
  (fn = "normalize_work_period" /\ Len(fn_values) >= 2) =>
    /\ \A k \in DOMAIN month_mapping :
         month_mapping[k][1] # month_mapping[k][2] => ~Contains(Applied(1), month_mapping[k][1])
    /\ Applied(0) = <<"J","a","n","u","a","r","y"," ","2","0","2","2"," ","t","o"," ","F","e","b","r","u","a","r","y"," ","2","0","2","3">>
         => Applied(1) = <<"J","a","n"," ","2","0","2","2"," ","-"," ","F","e","b"," ","2","0","2","3">>
    /\ Applied(0) = <<"M","a","r"," ","2","0","2","1"," ","t","o"," ","P","r","e","s","e","n","t">>
         => Applied(1) = <<"M","a","r"," ","2","0","2","1"," ","-"," ","T","i","l","l"," ","D","a","t","e">>

\* the commas of s that have white space before them, or something other
\* than exactly one space between them and the next character
BadCommas(s) ==
  {i \in DOMAIN s :
     /\ s[i] = ","
     /\ \/ (i > 1 /\ IsSpace(s[i - 1]))
        \/ (i < Len(s) /\ s[i + 1] # " ")
        \/ (i + 1 < Len(s) /\ IsSpace(s[i + 2]))}

\* C17: in the output of normalize_location every comma has no white space
\* before it and exactly one space after it, also when a dash or a pipe
\* separated city and region; "Dallas TX" gives "Dallas, TX" and
\* "Boston , Massachusetts" gives "Boston, MA".
C17_CommaSpacingCanonical ==
  (fn = "normalize_location" /\ Len(fn_values) >= 2) =>
    /\ BadCommas(Applied(1)) = {}
    /\ Applied(0) = <<"D","a","l","l","a","s"," ","T","X">>
         => Applied(1) = <<"D","a","l","l","a","s",","," ","T","X">>
    /\ Applied(0) = <<"B","o","s","t","o","n"," ",","," ","M","a","s","s","a","c","h","u","s","e","t","t","s">>
         => Applied(1) = <<"B","o","s","t","o","n",","," ","M","A">>

\* the hosts of the profile URLs
ProfileHosts ==
  { <<"l","i","n","k","e","d","i","n",".","c","o","m","/">>,
    <<"g","i","t","h","u","b",".","c","o","m","/">> }

\* value holds an email address, a phone number, or a URL of a profile
\* host in any case, with or without a scheme
Sensitive(value) ==
  \E i \in 0..(Len(value) - 1) :
    \/ EmailEnd(value, i) # -1
    \/ PhoneEnd(value, i) # -1
    \/ \E host \in ProfileHosts : PrefixedTokenEnd(Lower(value), i, host) # -1

\* C18: after redaction no value of the section map contains an email
\* address, a US-style phone number or a linkedin.com / github.com URL:
\* every occurrence is replaced, whatever its case and with or without a
\* scheme.
C18_NoSensitiveValueLeft ==
  \A r \in Requests :
    (Prepared(r) /\ found_sections[r] # <<>>) =>
      \A section_name \in DOMAIN chunk_result[r] :
        ~Sensitive(chunk_result[r][section_name])

EndToEndHeadings ==
  << <<"P","R","O","F","E","S","S","I","O","N","A","L"," ","S","U","M","M","A","R","Y">>,
     <<"E","X","P","E","R","I","E","N","C","E">>,
     <<"E","D","U","C","A","T","I","O","N">> >>

\* the lines of the Document hold the three headings in that order, each
\* followed by a line of body text
EndToEnd(document) ==
  \E lines \in {SplitOn(document, "\n")} :
    \E i, j, k \in 1..(Len(lines) - 1) :
      /\ i + 1 < j /\ j + 1 < k
      /\ lines[i] = EndToEndHeadings[1] /\ lines[i + 1] # <<>>
      /\ lines[j] = EndToEndHeadings[2] /\ lines[j + 1] # <<>>
      /\ lines[k] = EndToEndHeadings[3] /\ lines[k + 1] # <<>>

\* the text of the Document preceding the first heading
Preceding(document) == Slice(document, 0, Find(document, EndToEndHeadings[1], 0))

Populated(section_map) ==
  {section_name \in DOMAIN section_map \ {"header"} : section_map[section_name] # <<>>}

---------------------------------------------------------------------------
(* properties of the record's shape *)

\* the top-level keys of the ResumeRecord with the kind of value each holds
RecordKinds ==
  [name |-> "str", title |-> "str", requisitionNumber |-> "str",
   professionalSummary |-> "list", summarySections |-> "list",
   employmentHistory |-> "list", education |-> "list", certifications |-> "list",
   technicalSkills |-> "dict", skillCategories |-> "list"]

\* the empty value of a kind
EmptyOf(kind) ==
  CASE kind = "str"  -> JStr(<<>>)
    [] kind = "list" -> JList(<<>>)
    [] kind = "dict" -> JDict(EmptyDict)

\* some successful result of the owner of the key holds the key
Filled(key) ==
  \E i \in DOMAIN merge_input :
    /\ merge_input[i].agent_type = FieldOwner[key]
    /\ key \in DOMAIN merge_input[i].data

\* C20: for every set of successful role results the record has all of its
\* top-level keys, each holding a value of its type and never null, and a
\* key no role filled holds the empty string, list or object of its type.
C20_AllKeysPresentAndTyped ==
  merge_output # <<>> =>
    /\ DOMAIN RecordKinds \subseteq DOMAIN merge_output[1]
    /\ \A key \in DOMAIN RecordKinds :
         /\ merge_output[1][key].kind = RecordKinds[key]
         /\ ~Filled(key) => merge_output[1][key] = EmptyOf(RecordKinds[key])

---------------------------------------------------------------------------
(* properties of the normalized record *)

\* the degrees the schema of the Education role calls bachelor-equivalent
BachelorEquivalents == { <<"B","T","e","c","h">>, <<"B","E">>, <<"B","C","o","m">>, <<"B","A">>, <<"B","a","c","h","e","l","o","r">> }

\* the level of a degree (agent_schemas.py, description of "education"),
\* 0 for a text the schema does not name
DegreeLevel(degree) ==
  CASE degree \in {<<"A","A">>, <<"A","S">>} -> 1
    [] degree \in {<<"B","S">>} \cup BachelorEquivalents -> 2
    [] degree \in {<<"M","S">>, <<"M","A">>, <<"M","B","A">>, <<"M","C","o","m">>} -> 3
    [] degree \in {<<"P","h","D">>, <<"J","D">>} -> 4
    [] OTHER -> 0

DigitValue(c) == CHOOSE n \in 0..9 : <<"0","1","2","3","4","5","6","7","8","9">>[n + 1] = c

\* the year a date of four digits names
YearOf(date) ==
  1000 * DigitValue(date[1]) + 100 * DigitValue(date[2])
    + 10 * DigitValue(date[3]) + DigitValue(date[4])

\* the education entries of the record whose degree the schema names
LeveledEducation ==
  SelectSeq(merge_output[1].education.val,
            LAMBDA entry : DegreeLevel(DictGetOr(entry.val, "degree", JStr(<<>>)).val) # 0)

\* C21: in the education list of the record no degree is left
\* bachelor-equivalent (it reads "BS"), and the entries are ascending by
\* degree level, entries of one level by date: results submitted as PhD,
\* BTech, MBA come out as BS, MBA, PhD.
C21_EducationSortedAndStandardized ==
  merge_output # <<>> =>
    \E leveled \in {LeveledEducation} :
      /\ \A i \in DOMAIN leveled : leveled[i].val.degree.val \notin BachelorEquivalents
      /\ \A i, j \in DOMAIN leveled :
           i < j =>
             \/ DegreeLevel(leveled[i].val.degree.val) < DegreeLevel(leveled[j].val.degree.val)
             \/ /\ DegreeLevel(leveled[i].val.degree.val) = DegreeLevel(leveled[j].val.degree.val)
                /\ YearOf(leveled[i].val.date.val) <= YearOf(leveled[j].val.date.val)

---------------------------------------------------------------------------
(* properties of the spans and the segments *)

\* the offset at which the line of the Document around offset p starts
LineStart(document, p) ==
  SetMax({0} \cup {q \in 1..Min2(p, Len(document)) : document[q] = "\n"})

\* the offset at which that line ends (the offset of its newline)
LineEnd(document, p) ==
  SetMin({Len(document)} \cup {q \in p..(Len(document) - 1) : document[q + 1] = "\n"})

\* the heading text the detector derives from the line around offset p
HeadingTextAt(document, p) ==
  Strip(Lower(strip_bullet_prefix(
    StripMarkup(Slice(document, LineStart(document, p), LineEnd(document, p))))))

\* C22: the span of every accepted heading match lies in the heading line:
\* it starts in the line whose cleaned text is the matched text, and it
\* ends in that line, so it holds no text of another line.
C22_SpanWithinHeadingLine ==
  \A r \in Requests :
    Prepared(r) =>
      \A i \in DOMAIN found_sections[r] :
        /\ found_sections[r][i].start <= found_sections[r][i].end
        /\ HeadingTextAt(extracted_text[r].val, found_sections[r][i].start)
             = found_sections[r][i].text
        /\ found_sections[r][i].end
             <= LineEnd(extracted_text[r].val, found_sections[r][i].start)

\* the number of characters before offset p of the text that the markup
\* strip keeps
SurvivingBefore(text, p) == Cardinality((1..p) \ MarkupSpan(text))

\* C23: for every text and every clean offset k up to the length of the
\* markup-stripped text, exactly k characters that survive the markup strip
\* lie before the position find_original_position returns for k.
C23_PositionCountsSurvivingCharacters ==
  (fn = "find_original_position" /\ Len(fn_values) = 2) =>
    \A n \in DOMAIN Applied(1) :
      /\ Applied(1)[n] \in 0..Len(Applied(0))
      /\ SurvivingBefore(Applied(0), Applied(1)[n]) = n - 1

\* the text between boundary i and the next boundary, or the end of the
\* Document
Between(document, found, i) ==
  Slice(document, found[i].end,
        IF i < Len(found) THEN found[i + 1].start ELSE Len(document))

\* the boundaries of a key, in document order
BoundariesOf(found, key) ==
  SelectSeq([i \in 1..Len(found) |-> i], LAMBDA i : found[i].section_key = key)

\* the section map made of one piece per boundary, each followed by a
\* newline, the pieces of one key in document order
MapOfPieces(document, found, Piece(_)) ==
  [key \in SectionNames |->
     IF key = "header" THEN StripMarkup(Strip(Slice(document, 0, found[1].start)))
     ELSE Concat([n \in 1..Len(BoundariesOf(found, key)) |->
                    Piece(Between(document, found, BoundariesOf(found, key)[n])) \o <<"\n">>])]

StrippedThenTrimmed(text) == Strip(StripMarkup(text))

TrimmedThenStripped(text) == StripMarkup(Strip(text))

\* the section map the chunker returns for a map built from the boundaries
Finished(document, sections) ==
  sanitize_sensitive_info(extract_certifications_from_text(document, sections))

\* C24 as stated: the entry of each key, before the certification sweep and
\* the redaction, is the concatenation in document order of one piece per
\* boundary of the key, each piece the markup-stripped and trimmed text
\* between the boundary and the next one, followed by a newline.
C24_PiecesAsStated ==
  \A r \in Requests :
    (Prepared(r) /\ found_sections[r] # <<>>) =>
      chunk_result[r] =
        Finished(extracted_text[r].val,
                 MapOfPieces(extracted_text[r].val, found_sections[r], StrippedThenTrimmed))

\* C24: the same with each piece trimmed first and markup-stripped after,
\* so that white space a removed tag separated from the ends of the piece
\* stays; the pieces of a repeated key accumulate, none overwrites another.
C24_PiecesAccumulate ==
  \A r \in Requests :
    (Prepared(r) /\ found_sections[r] # <<>>) =>
      chunk_result[r] =
        Finished(extracted_text[r].val,
                 MapOfPieces(extracted_text[r].val, found_sections[r], TrimmedThenStripped))

\* a Document chunked with two boundaries of skills around one of education
C24_RepeatedKeyAccumulated ==
  \E r \in Requests :
    /\ Prepared(r)
    /\ Len(BoundariesOf(found_sections[r], "skills")) = 2
    /\ Len(BoundariesOf(found_sections[r], "education")) = 1
    /\ chunk_result[r]["skills"] = <<" ","S","Q","L","\n","J","a","v","a","\n">>
    /\ chunk_result[r]["education"] = <<":","\n","B","S","\n">>

Indicated(line) ==
  /\ Len(Strip(line)) >= 5
  /\ \E n \in DOMAIN cert_keywords : Contains(Lower(line), cert_keywords[n])

\* the lines of the markup-stripped Document that name a certification
\* indicator and have a trimmed length of at least 5, each trimmed
IndicatorLines(document) ==
  [n \in 1..Len(SelectSeq(SplitOn(StripMarkup(document), "\n"), Indicated)) |->
     Strip(SelectSeq(SplitOn(StripMarkup(document), "\n"), Indicated)[n])]

\* what the boundaries alone put under certifications
BoundaryCertifications(r) ==
  MapOfPieces(extracted_text[r].val, found_sections[r], TrimmedThenStripped)["certifications"]

\* C25: whenever a section map is produced, its certifications entry is the
\* boundary-based content of that entry followed by every indicator line
\* of the Document (redacted like every value), whichever boundaries were
\* detected; the boundary-based content is never replaced.
C25_SweepAppendsIndicatorLines ==
  \A r \in Requests :
    (Prepared(r) /\ found_sections[r] # <<>>) =>
      \E swept \in {IndicatorLines(extracted_text[r].val)} :
        \E held \in {BoundaryCertifications(r)} :
          chunk_result[r]["certifications"] =
            ApplyPasses(IF swept = <<>> THEN held
                        ELSE IF held = <<>> THEN Join(<<"\n">>, swept)
                        ELSE held \o <<"\n">> \o Join(<<"\n">>, swept), 1)

\* a Document whose certifications block holds one line and whose sweep
\* finds that line, the heading and a line of the header
C25_SweptBesideBoundaryContent ==
  \E r \in Requests :
    /\ Prepared(r)
    /\ BoundaryCertifications(r) = <<"A","W","S"," ","C","e","r","t","i","f","i","e","d"," ","a","@","b",".","i","o","\n">>
    /\ Len(IndicatorLines(extracted_text[r].val)) = 3
    /\ chunk_result[r]["certifications"] = <<"A","W","S"," ","C","e","r","t","i","f","i","e","d"," ","[","E","M","A","I","L"," ","R","E","D","A","C","T","E","D","]","\n","\n","L","i","c","e","n","s","e","d"," ","n","u","r","s","e","\n","C","E","R","T","I","F","I","C","A","T","I","O","N","S","\n","A","W","S"," ","C","e","r","t","i","f","i","e","d"," ","[","E","M","A","I","L"," ","R","E","D","A","C","T","E","D","]">>

\* the items of the list a dict holds under key, none when it holds no list
ListAt(d, key) ==
  IF key \in DOMAIN d /\ d[key].kind = "list" THEN d[key].val ELSE <<>>

\* every text of the list under key is free of a bullet prefix
BulletFree(d, key) ==
  \A i \in DOMAIN ListAt(d, key) :
    strip_bullet_prefix(ListAt(d, key)[i].val) = ListAt(d, key)[i].val

\* C26: every string of the list-of-string fields of a successful role
\* result is the strip_bullet_prefix of the extracted one, hence free of a
\* bullet prefix: professionalSummary, the content of every summary
\* subsection, every job's responsibilities and subsection content, every
\* project's projectResponsibilities; whatever the other fields hold.
C26_ListFieldsBulletFree ==
  merge_output # <<>> =>
    /\ BulletFree(merge_output[1], "professionalSummary")
    /\ \A i \in DOMAIN ListAt(merge_output[1], "summarySections") :
         BulletFree(ListAt(merge_output[1], "summarySections")[i].val, "content")
    /\ \A i \in DOMAIN ListAt(merge_output[1], "employmentHistory") :
         \E job \in {ListAt(merge_output[1], "employmentHistory")[i].val} :
           /\ BulletFree(job, "responsibilities")
           /\ \A n \in DOMAIN ListAt(job, "subsections") :
                BulletFree(ListAt(job, "subsections")[n].val, "content")
           /\ \A n \in DOMAIN ListAt(job, "projects") :
                BulletFree(ListAt(job, "projects")[n].val, "projectResponsibilities")

\* the dict holds a list under every one of the keys
HoldsLists(d, keys) == \A key \in keys : key \in DOMAIN d /\ d[key].kind = "list"

\* C27: in every successful role result that reaches the record, each field
\* the schemas declare as a collection is a list, neither missing nor null:
\* a job's responsibilities, projects and subsections, the content of a
\* subsection, a project's projectResponsibilities, a category's skills;
\* and subCategories of every skill category is a list.
C27_CollectionsAreLists ==
  merge_output # <<>> =>
    /\ \A i \in DOMAIN ListAt(merge_output[1], "summarySections") :
         HoldsLists(ListAt(merge_output[1], "summarySections")[i].val, {"content"})
    /\ \A i \in DOMAIN ListAt(merge_output[1], "employmentHistory") :
         \E job \in {ListAt(merge_output[1], "employmentHistory")[i].val} :
           /\ HoldsLists(job, {"responsibilities", "projects", "subsections"})
           /\ \A n \in DOMAIN ListAt(job, "subsections") :
                HoldsLists(ListAt(job, "subsections")[n].val, {"content"})
           /\ \A n \in DOMAIN ListAt(job, "projects") :
                HoldsLists(ListAt(job, "projects")[n].val, {"projectResponsibilities"})
    /\ \A i \in DOMAIN ListAt(merge_output[1], "skillCategories") :
         HoldsLists(ListAt(merge_output[1], "skillCategories")[i].val,
                    {"skills", "subCategories"})

---------------------------------------------------------------------------
(* properties of what the roles are given *)

EmailPlaceholder == <<"[","E","M","A","I","L"," ","R","E","D","A","C","T","E","D","]">>

\* C28: the redaction reaches the values of the section map only: the input
\* of the Certifications role is the Document, the leading context of the
\* Header role's input is the first 1000 characters of the Document, and
\* every role whose segment is blank is given the Document, each unchanged
\* (contact details included).
C28_FullDocumentInputsUnredacted ==
  \A r \in Requests :
    Prepared(r) =>
      /\ agent_inputs[r]["certifications"] = extracted_text[r].val
      /\ \/ agent_inputs[r]["header"] = extracted_text[r].val
         \/ /\ Solid(Segment(r, "header")) # {}
            /\ Slice(agent_inputs[r]["header"], 0,
                     Min2(HeaderContextLen, Len(extracted_text[r].val)))
                 = Slice(extracted_text[r].val, 0, HeaderContextLen)
      /\ \A a \in AgentSet \ {"certifications"} :
           Solid(Segment(r, a)) = {} => agent_inputs[r][a] = extracted_text[r].val

\* a Document with an email address in its header: the header value of the
\* section map is redacted, the inputs of the Certifications, Header and
\* Summary roles hold the address
C28_AddressKeptInInputs ==
  \E r \in Requests :
    /\ Prepared(r)
    /\ found_sections[r] # <<>>
    /\ Contains(chunk_result[r]["header"], EmailPlaceholder)
    /\ ~Sensitive(chunk_result[r]["header"])
    /\ \A a \in {"certifications", "header", "summary"} :
         \E i \in 0..(Len(agent_inputs[r][a]) - 1) : EmailEnd(agent_inputs[r][a], i) # -1
    /\ agent_inputs[r]["header"] # extracted_text[r].val

---------------------------------------------------------------------------
(* properties of the deduplication and of the slices *)

\* C29: for every start-sorted match list, remove_duplicate_sections
\* returns a subsequence of the list (the kept matches in their order) that
\* holds the first match, and applied to its own result it returns that
\* result.
C29_DedupSubsequenceIdempotent ==
  fn = "remove_duplicate_sections" =>
    /\ Len(fn_values) >= 2 =>
         /\ \E kept \in SUBSET DOMAIN Applied(0) : Applied(1) = KeepIndices(Applied(0), kept)
         /\ Applied(0) # <<>> => (Applied(1) # <<>> /\ Applied(1)[1] = Applied(0)[1])
    /\ Len(fn_values) >= 3 => Applied(2) = Applied(1)

\* a list of three matches of one section of which the second is dropped
\* and the third, far enough from the first, is kept; applied twice
C29_DroppedAndKeptAppliedTwice ==
  /\ fn = "remove_duplicate_sections"
  /\ Len(fn_values) = 3
  /\ Len(Applied(0)) = 3
  /\ \A i \in 1..3 : Applied(0)[i].section_key = "skills"
  /\ Applied(1) = <<Applied(0)[1], Applied(0)[3]>>
  /\ Applied(2) = Applied(1)

\* the offsets of the Document a slice [lo, hi) holds
SliceOffsets(document, lo, hi) == {p \in lo..(hi - 1) : 0 <= p /\ p < Len(document)}

\* the slices of the header and of the boundaries: [0, start_1), then
\* [end_i, start_(i+1)), then [end_n, len)
AssignedSlices(document, found) ==
  <<SliceOffsets(document, 0, found[1].start)>>
    \o [i \in 1..Len(found) |->
          SliceOffsets(document, found[i].end,
                       IF i < Len(found) THEN found[i + 1].start ELSE Len(document))]

\* boundary i ends after the next boundary starts
Overtaken(found, i) == i < Len(found) /\ found[i].end > found[i + 1].start

\* C30: the slices of the Document assigned to the header and to the
\* boundaries are in ascending order and pairwise disjoint; a boundary that
\* ends after the next one starts gets an empty segment, and the chunker
\* still returns a section map.
C30_SlicesDisjointAscending ==
  \A r \in Requests :
    (Prepared(r) /\ found_sections[r] # <<>>) =>
      \E slices \in {AssignedSlices(extracted_text[r].val, found_sections[r])} :
        /\ \A i, j \in DOMAIN slices :
             i < j => \A p \in slices[i] : \A q \in slices[j] : p < q
        /\ \A i \in DOMAIN found_sections[r] :
             Overtaken(found_sections[r], i) =>
               /\ slices[i + 1] = {}
               /\ Between(extracted_text[r].val, found_sections[r], i) = <<>>
        /\ DOMAIN chunk_result[r] = SectionNames
        /\ events[r] = <<>>

\* a Document chunked with a boundary that ends after the next one starts,
\* and with text in the header and in a later segment
C30_OvertakenBoundaryChunked ==
  \E r \in Requests :
    /\ Prepared(r)
    /\ Len(found_sections[r]) >= 2
    /\ Overtaken(found_sections[r], 1)
    /\ chunk_result[r][found_sections[r][1].section_key] = <<"\n">>
    /\ chunk_result[r]["header"] # <<>>
    /\ \E key \in SectionNames \ {"header", "certifications"} :
         Solid(chunk_result[r][key]) # {}

=============================================================================
